---------------------------- MODULE Spec2Model ----------------------------
(***************************************************************************)
(* A model of the Xsens telemetry store of Tturna/xsens-interface-avcc:    *)
(* sensors.py (the dancers() store, Sensors.send_data, Sensors.scale_data, *)
(* the two correlation routines) and xda_device.py (recording_loop).       *)
(*                                                                         *)
(* Numbers.  Python floats are modelled as fixed-point integers: a series  *)
(* sample, a scaling bound and a correlation coefficient x are held as the *)
(* integer x * Unit.  The raw inputs of the model are chosen so that every *)
(* quotient scale_data forms is exact in that representation.              *)
(*                                                                         *)
(* Sizes.  The source keeps 500 samples per series and correlates the last *)
(* 32; the model keeps Capacity samples and correlates the last Window.    *)
(***************************************************************************)
EXTENDS Integers, Sequences, FiniteSets, TLC

\* ------------------------------------------------------------------ bounds

\* Length of every series (sensors.py:38 uses 500).
Capacity == 2
\* Length of the trailing window of the correlation routines (sensors.py:343
\* uses 32).
Window == 2
\* Number of calls a caller of the Sensors object makes in one behaviour.
MaxCalls == 3
\* Number of packets recording_loop takes from the callback in one behaviour.
MaxPackets == 3
\* Raw values handed to scale_data range over -1 .. MaxRaw.
MaxRaw == 3

\* The fixed-point unit: a multiple of every difference max - min that the
\* bounds of scale_data can reach with raw values in -1 .. MaxRaw (min stays
\* in -1 .. 0 and max in 1 .. MaxRaw), so that every quotient is exact.
RECURSIVE Gcd(_, _)
Gcd(a, b) == IF b = 0 THEN a ELSE Gcd(b, a % b)

RECURSIVE LcmUpTo(_)
LcmUpTo(n) == IF n <= 1 THEN 1 ELSE LET m == LcmUpTo(n - 1) IN (m * n) \div Gcd(m, n)

Unit == LcmUpTo(MaxRaw + 1)

\* --------------------------------------------------------------- constants

\* dancers(number_of_dancers=3, number_of_sensors=3)
number_of_dancers == 3
number_of_sensors == 3

\* The series labels of one sensor, in insertion order (sensors.py:32).
labels ==
    << "tot_a", "b_tot_a", "rot", "ori_p", "ori_r", "ori_y",
       "acc_x", "acc_y", "acc_z", "gyr_x", "gyr_y", "gyr_z",
       "mag_x", "mag_y", "mag_z" >>

LabelSet == { labels[i] : i \in 1..Len(labels) }

\* The data types of Sensors.labels: 'acc', 'tot_a', 'ori', 'gyr', 'rot', 'mag'
DataTypes == { "acc", "tot_a", "ori", "gyr", "rot", "mag" }

\* Sensors.axes
axes == << "x", "y", "z" >>

\* ['p', 'r', 'y'] of the orientation branch of send_data
pry == << "p", "r", "y" >>

\* Sensors.locations: sensor id -> [name, dancer, sensor]
locations ==
    [ id \in { "00B4F11A", "00B4F114", "00B4F115", "00B4F11B", "00B4F116",
               "00B4F119", "00B4F11C", "00B4F107", "00B4F11D" } |->
        CASE id = "00B4F11A" -> << "left", 1, 1 >>
          [] id = "00B4F114" -> << "right", 1, 2 >>
          [] id = "00B4F115" -> << "torso", 1, 3 >>
          [] id = "00B4F11B" -> << "left", 2, 1 >>
          [] id = "00B4F116" -> << "right", 2, 2 >>
          [] id = "00B4F119" -> << "torso", 2, 3 >>
          [] id = "00B4F11C" -> << "left", 3, 1 >>
          [] id = "00B4F107" -> << "right", 3, 2 >>
          [] id = "00B4F11D" -> << "torso", 3, 3 >> ]

\* Sensors.correlation_others_combos
correlation_others_combos == << << 12, 22 >> >>

\* ------------------------------------------------------------ Python helpers

\* A variant of Zeros that is one sample short of a window.
ZerosShort == [ i \in 1..(Window - 1) |-> 0 ]

\* [0] * 500
Zeros == [ i \in 1..Capacity |-> 0 ]

\* f'{data_type}_{suffix}'
Label(data_type, suffix) ==
    CASE data_type = "acc" /\ suffix = "x" -> "acc_x"
      [] data_type = "acc" /\ suffix = "y" -> "acc_y"
      [] data_type = "acc" /\ suffix = "z" -> "acc_z"
      [] data_type = "gyr" /\ suffix = "x" -> "gyr_x"
      [] data_type = "gyr" /\ suffix = "y" -> "gyr_y"
      [] data_type = "gyr" /\ suffix = "z" -> "gyr_z"
      [] data_type = "mag" /\ suffix = "x" -> "mag_x"
      [] data_type = "mag" /\ suffix = "y" -> "mag_y"
      [] data_type = "mag" /\ suffix = "z" -> "mag_z"
      [] data_type = "ori" /\ suffix = "p" -> "ori_p"
      [] data_type = "ori" /\ suffix = "r" -> "ori_r"
      [] data_type = "ori" /\ suffix = "y" -> "ori_y"

\* f'b_{data_type}' (only ever formed with data_type = 'tot_a')
BLabel(data_type) == IF data_type = "tot_a" THEN "b_tot_a" ELSE "b_other"

\* The store built by dancers(): dancers[d_idx][s_idx][label] is a series.
\* d_idx is 0-based as in the source, the key 'snsr_<s_idx>' is held as s_idx.
DancersInit ==
    [ d_idx \in 0..(number_of_dancers - 1) |->
        [ s_idx \in 1..number_of_sensors |->
            [ label \in LabelSet |-> Zeros ] ] ]

\* The keys of one correlation dictionary dancer1[sens]['correlation_<label>']
\* built by dancers(): 'snsr_<jj>' for every sensor and 'dancer_<k>' for every
\* dancer k other than the owner.  A key is held as <<kind, number>>.
CorrKeys(dancer1_idx) ==
    { << "snsr", jj >> : jj \in 1..number_of_sensors }
        \cup { << "dancer", dancer2_idx + 1 >> :
                 dancer2_idx \in (0..(number_of_dancers - 1)) \ { dancer1_idx } }

\* correlations[d_idx][s_idx][label][key] is dancers[d_idx]['snsr_<s_idx>']
\* ['correlation_<label>'][key] of the source.
CorrelationsInit ==
    [ d_idx \in 0..(number_of_dancers - 1) |->
        [ s_idx \in 1..number_of_sensors |->
            [ label \in LabelSet |->
                [ key \in CorrKeys(d_idx) |-> Zeros ] ] ] ]


\* ------------------------------------------------------------------- state

VARIABLES
    dancers,        \* Sensors.dancers: the channel series
    correlations,   \* Sensors.dancers[..]['correlation_<label>'][key]
    minmax,         \* Sensors.minmax: the scaling bounds
    sensors,        \* Sensors.sensors: the ids of the connected sensors, or None
    call,           \* the last call made on the Sensors object and its outcome
    appendLog,      \* every append made to a channel series so far, in order
    corrLog,        \* every append made to a correlation series so far, in order
    nCalls,         \* number of calls made so far
    pc,             \* where the device thread is: "idle", "configured", "loop",
                    \* "raised", "done", "exited"
    recording,      \* XdaDevice.recording
    loc,            \* the locals of recording_loop that outlive an iteration
    now,            \* the clock read by time(), in ticks
    iter,           \* the last iteration of recording_loop that took a packet
    nPackets,       \* number of packets taken from the callback so far
    device          \* the calls made on self.device and self.control and to
                    \* sys.exit so far, in order

storeVars == << dancers, correlations, minmax, sensors, call, appendLog, corrLog, nCalls >>
loopVars == << pc, recording, loc, now, iter, nPackets, device >>
vars == << dancers, correlations, minmax, sensors, call, appendLog, corrLog, nCalls,
           pc, recording, loc, now, iter, nPackets, device >>

\* --------------------------------------------------------------- scale_data

None == "None"

\* Sensors.minmax as built by __init__: nine dictionaries, each with its own
\* lists.
MinMaxInit ==
    [ i \in 1..9 |->
        [ id |-> None,
          acc_min |-> << 0, 0, 0 >>, gyr_min |-> << 0, 0, 0 >>,
          mag_min |-> << 0, 0, 0 >>, ori_min |-> << 0, 0, 0 >>,
          tot_a_min |-> << 0 >>, rot_min |-> << 0 >>,
          acc_max |-> << Unit, Unit, Unit >>, gyr_max |-> << Unit, Unit, Unit >>,
          mag_max |-> << Unit, Unit, Unit >>, ori_max |-> << Unit, Unit, Unit >>,
          tot_a_max |-> << Unit >>, rot_max |-> << Unit >> ] ]

\* f'{data_type}_min' and f'{data_type}_max'
MinKey(data_type) ==
    CASE data_type = "acc" -> "acc_min"
      [] data_type = "gyr" -> "gyr_min"
      [] data_type = "mag" -> "mag_min"
      [] data_type = "ori" -> "ori_min"
      [] data_type = "tot_a" -> "tot_a_min"
      [] data_type = "rot" -> "rot_min"

MaxKey(data_type) ==
    CASE data_type = "acc" -> "acc_max"
      [] data_type = "gyr" -> "gyr_max"
      [] data_type = "mag" -> "mag_max"
      [] data_type = "ori" -> "ori_max"
      [] data_type = "tot_a" -> "tot_a_max"
      [] data_type = "rot" -> "rot_max"

\* Sensors.set_ids(): minmax[i]['id'] = id of the i-th connected sensor.  The
\* lookup in Sensors.locations raises KeyError for an id it does not hold, and
\* the entries set before it stay set.
RECURSIVE SetIdsFrom(_, _, _)
SetIdsFrom(mm, snsrs, i) ==
    IF i > Len(snsrs) THEN [ minmax |-> mm, error |-> "" ]
    ELSE IF snsrs[i] \notin DOMAIN locations THEN [ minmax |-> mm, error |-> "KeyError" ]
    ELSE IF i > Len(mm) THEN [ minmax |-> mm, error |-> "IndexError" ]
    ELSE SetIdsFrom([ mm EXCEPT ![i].id = snsrs[i] ], snsrs, i + 1)

set_ids(mm, snsrs) == SetIdsFrom(mm, snsrs, 1)

\* The index of the first dictionary of minmax whose id is sensor_id, 0 when
\* there is none: [sensor for sensor in self.minmax if sensor['id'] == sensor_id][0]
FirstWithId(mm, sensor_id) ==
    LET hits == { i \in 1..Len(mm) : mm[i].id = sensor_id }
    IN  IF hits = { } THEN 0 ELSE CHOOSE i \in hits : \A j \in hits : i <= j

\* A variant of ScaleQuotient that measures the value from the maximum.
ScaleQuotientFromMax(val, minimum, maximum) ==
    ((maximum - val) * Unit) \div (maximum - minimum)

\* One round of "for i, val in enumerate(value)": the bounds read into
\* minimum and maximum, the bound widened, the quotient formed from the
\* values read.
ScaleQuotient(val, minimum, maximum) ==
    ((val - minimum) * Unit) \div (maximum - minimum)

\* A variant of Widen that stores every value as the minimum.
WidenAlways(mm, k, data_type, i, val) ==
    [ mm EXCEPT ![k][MinKey(data_type)][i] = val ]

\* A variant of Widen whose first comparison is turned round.
WidenSignSlip(mm, k, data_type, i, val) ==
    LET minimum == mm[k][MinKey(data_type)][i]
        maximum == mm[k][MaxKey(data_type)][i]
    IN  IF val > minimum
        THEN [ mm EXCEPT ![k][MinKey(data_type)][i] = val ]
        ELSE IF val > maximum
        THEN [ mm EXCEPT ![k][MaxKey(data_type)][i] = val ]
        ELSE mm

\* if val < minimum: ..._min[i] = val; elif val > maximum: ..._max[i] = val
Widen(mm, k, data_type, i, val) ==
    LET minimum == mm[k][MinKey(data_type)][i]
        maximum == mm[k][MaxKey(data_type)][i]
    IN  IF val < minimum
        THEN [ mm EXCEPT ![k][MinKey(data_type)][i] = val ]
        ELSE IF val > maximum
        THEN [ mm EXCEPT ![k][MaxKey(data_type)][i] = val ]
        ELSE mm

RECURSIVE ScaleFrom(_, _, _, _, _, _)
ScaleFrom(mm, k, data_type, value, i, scaled_data) ==
    IF i > Len(value)
    THEN [ minmax |-> mm, scaled_data |-> scaled_data, error |-> "" ]
    ELSE IF i > Len(mm[k][MinKey(data_type)])
    THEN [ minmax |-> mm, scaled_data |-> scaled_data, error |-> "IndexError" ]
    ELSE LET val == value[i]
             minimum == mm[k][MinKey(data_type)][i]
             maximum == mm[k][MaxKey(data_type)][i]
             mm1 == Widen(mm, k, data_type, i, val)
         IN  IF maximum - minimum = 0
             THEN [ minmax |-> mm1, scaled_data |-> scaled_data,
                    error |-> "ZeroDivisionError" ]
             ELSE ScaleFrom(mm1, k, data_type, value, i + 1,
                            Append(scaled_data, ScaleQuotient(val, minimum, maximum)))

\* Sensors.scale_data(sensor_id, data_type, value)
scale_data(mm, sensor_id, data_type, value) ==
    LET k == FirstWithId(mm, sensor_id)
    IN  IF k = 0
        THEN [ minmax |-> mm, scaled_data |-> << >>, error |-> "IndexError" ]
        ELSE ScaleFrom(mm, k, data_type, value, 1, << >>)

\* ---------------------------------------------------------------- send_data

\* A store being updated by one call: the series, the appends made and the
\* calls made to dpg.configure_item, in program order.
Store(dn) == [ dn |-> dn, ap |-> << >>, hk |-> << >>, raises |-> 0, error |-> "" ]

\* The same store when the n-th call to dpg.configure_item is one that raises.
StoreRaising(dn, n) == [ Store(dn) EXCEPT !.raises = n ]

\* A variant of StAppend in which the dancers share the dictionaries of their
\* sensors: the sample lands in the series of every dancer.
StAppendShared(st, d_idx, s_idx, label, val) ==
    [ st EXCEPT !.dn = [ d \in DOMAIN @ |->
                           [ @[d] EXCEPT ![s_idx][label] = Append(@, val) ] ],
                !.ap = Append(@, << d_idx, s_idx, label, val >>) ]

\* <series>.append(val)
StAppend(st, d_idx, s_idx, label, val) ==
    IF st.error # "" THEN st
    ELSE [ st EXCEPT !.dn[d_idx][s_idx][label] = Append(@, val),
                     !.ap = Append(@, << d_idx, s_idx, label, val >>) ]

\* A variant of StCut that never deletes.
StCutNever(st, d_idx, s_idx, label) == st

\* A variant of StCut that deletes the newest sample, not the oldest.
StCutLast(st, d_idx, s_idx, label) ==
    LET cutoff == Len(st.dn[d_idx][s_idx][label]) - Capacity
    IN  IF cutoff > 0
        THEN [ st EXCEPT !.dn[d_idx][s_idx][label] = SubSeq(@, 1, Len(@) - 1) ]
        ELSE st

\* cutoff = len(<series>) - 500; if cutoff > 0: del <series>[0]
StCut(st, d_idx, s_idx, label) ==
    LET cutoff == Len(st.dn[d_idx][s_idx][label]) - Capacity
    IN  IF cutoff > 0 /\ st.error = ""
        THEN [ st EXCEPT !.dn[d_idx][s_idx][label] = Tail(@) ]
        ELSE st

\* dpg.configure_item(item, y = <series>): the item tag
\* f'{data_type}{d_idx}_{s_idx}{suffix}', the series passed and its content at
\* the time of the call.  No statement of send_data catches what the call
\* raises: the statements after it are not executed.
StHook(st, data_type, d_idx, s_idx, suffix, label) ==
    IF st.error # "" THEN st
    ELSE IF st.raises = Len(st.hk) + 1 THEN [ st EXCEPT !.error = "SystemError" ]
    ELSE [ st EXCEPT !.hk = Append(@, [ item   |-> << data_type, d_idx, s_idx, suffix >>,
                                        series |-> << d_idx, s_idx, label >>,
                                        y      |-> st.dn[d_idx][s_idx][label] ]) ]

\* Python's <list> == <int>: a list never equals an integer.
ListEqInt(list, n) == FALSE

\* The branch for 'acc', 'gyr' and 'mag': for i, val in enumerate(value)
RECURSIVE SendXYZ(_, _, _, _, _, _)
SendXYZ(st, d_idx, s_idx, data_type, value, i) ==
    IF i > Len(value)
    THEN st
    ELSE LET data_label == Label(data_type, axes[i])
             st1 == StAppend(st, d_idx, s_idx, data_label, value[i])
             st2 == StCut(st1, d_idx, s_idx, data_label)
             st3 == StHook(st2, data_type, d_idx, s_idx, axes[i], data_label)
         IN  SendXYZ(st3, d_idx, s_idx, data_type, value, i + 1)

\* The branch for 'ori': for pry in ['p', 'r', 'y'], after the three appends
RECURSIVE SendOriCut(_, _, _, _, _)
SendOriCut(st, d_idx, s_idx, data_type, i) ==
    IF i > Len(pry)
    THEN st
    ELSE LET data_label == Label(data_type, pry[i])
             st1 == StCut(st, d_idx, s_idx, data_label)
             st2 == StHook(st1, data_type, d_idx, s_idx, pry[i], data_label)
         IN  SendOriCut(st2, d_idx, s_idx, data_type, i + 1)

SendOri(st, d_idx, s_idx, data_type, value) ==
    LET st1 == StAppend(st, d_idx, s_idx, Label(data_type, "p"), value[1])
        st2 == StAppend(st1, d_idx, s_idx, Label(data_type, "r"), value[2])
        st3 == StAppend(st2, d_idx, s_idx, Label(data_type, "y"), value[3])
    IN  SendOriCut(st3, d_idx, s_idx, data_type, 1)

\* The branch for 'rot'
SendRot(st, d_idx, s_idx, data_type, value) ==
    LET st1 == StAppend(st, d_idx, s_idx, data_type, value[1])
        st2 == StCut(st1, d_idx, s_idx, data_type)
    IN  StHook(st2, data_type, d_idx, s_idx, "", data_type)

\* The branch for 'tot_a': the scalar and its binary companion.  The two
\* configure_item calls for the companion are guarded by comparisons of the
\* series (a list) with 0 and with 1.
SendTotA(st, d_idx, s_idx, data_type, value) ==
    LET st1 == StAppend(st, d_idx, s_idx, data_type, value[1])
        st2 == StAppend(st1, d_idx, s_idx, BLabel(data_type), value[2])
        st3 == StCut(st2, d_idx, s_idx, data_type)
        st4 == StHook(st3, data_type, d_idx, s_idx, "", data_type)
        st5 == StCut(st4, d_idx, s_idx, BLabel(data_type))
    IN  IF ListEqInt(st5.dn[d_idx][s_idx][BLabel(data_type)], 0)
        THEN StHook(st5, BLabel(data_type), d_idx, s_idx, "", BLabel(data_type))
        ELSE IF ListEqInt(st5.dn[d_idx][s_idx][BLabel(data_type)], 1)
        THEN StHook(st5, BLabel(data_type), d_idx, s_idx, "", BLabel(data_type))
        ELSE st5

\* A variant of send_data that files the sample of an id Sensors.locations
\* does not hold under dancer 1, sensor 1.
send_data_default_slot(dn, sensor_id, data_type, value) ==
    LET known == sensor_id \in DOMAIN locations
        s_idx == IF known THEN locations[sensor_id][3] ELSE 1
        d_idx == IF known THEN locations[sensor_id][2] - 1 ELSE 0
        st == Store(dn)
        out == CASE data_type \in { "acc", "gyr", "mag" } ->
                       SendXYZ(st, d_idx, s_idx, data_type, value, 1)
                 [] data_type = "ori" ->
                       SendOri(st, d_idx, s_idx, data_type, value)
                 [] data_type = "rot" ->
                       SendRot(st, d_idx, s_idx, data_type, value)
                 [] data_type = "tot_a" ->
                       SendTotA(st, d_idx, s_idx, data_type, value)
                 [] OTHER -> st
    IN  [ dn |-> out.dn, ap |-> out.ap, hk |-> out.hk, error |-> "" ]

\* Sensors.send_data(sensor_id, data_type, value) on the store st: the series
\* afterwards, the appends and configure_item calls made, and the exception
\* raised ("" when the call returns).
send_data_from(st, sensor_id, data_type, value) ==
    IF sensor_id \notin DOMAIN locations
    THEN [ dn |-> st.dn, ap |-> << >>, hk |-> << >>, error |-> "KeyError" ]
    ELSE LET s_idx == locations[sensor_id][3]
             d_idx == locations[sensor_id][2] - 1
             out == CASE data_type \in { "acc", "gyr", "mag" } ->
                            SendXYZ(st, d_idx, s_idx, data_type, value, 1)
                      [] data_type = "ori" ->
                            SendOri(st, d_idx, s_idx, data_type, value)
                      [] data_type = "rot" ->
                            SendRot(st, d_idx, s_idx, data_type, value)
                      [] data_type = "tot_a" ->
                            SendTotA(st, d_idx, s_idx, data_type, value)
                      [] OTHER -> st
         IN  [ dn |-> out.dn, ap |-> out.ap, hk |-> out.hk, error |-> out.error ]

\* Sensors.send_data(sensor_id, data_type, value) when every call to
\* dpg.configure_item returns.
send_data(dn, sensor_id, data_type, value) ==
    send_data_from(Store(dn), sensor_id, data_type, value)

\* Sensors.send_data(sensor_id, data_type, value) when the n-th call to
\* dpg.configure_item raises.
send_data_raising(dn, sensor_id, data_type, value, n) ==
    send_data_from(StoreRaising(dn, n), sensor_id, data_type, value)

\* ------------------------------------------------------------- correlation

RECURSIVE SumSeq(_)
SumSeq(x) == IF x = << >> THEN 0 ELSE Head(x) + SumSeq(Tail(x))

RECURSIVE Dot(_, _)
Dot(x, y) == IF x = << >> THEN 0 ELSE Head(x) * Head(y) + Dot(Tail(x), Tail(y))

RECURSIVE MinSeq(_)
MinSeq(x) ==
    IF Len(x) = 1 THEN Head(x)
    ELSE LET m == MinSeq(Tail(x)) IN IF Head(x) < m THEN Head(x) ELSE m

RECURSIVE GcdSeq(_)
GcdSeq(x) == IF x = << >> THEN 0 ELSE Gcd(Head(x), GcdSeq(Tail(x)))

\* floor(sqrt(n)) by Newton's iteration
RECURSIVE IsqrtIter(_, _)
IsqrtIter(n, x) ==
    LET y == (x + n \div x) \div 2 IN IF y >= x THEN x ELSE IsqrtIter(n, y)

Isqrt(n) == IF n = 0 THEN 0 ELSE IsqrtIter(n, n)

\* x shifted to start at 0 and divided by the gcd of its entries: the Pearson
\* coefficient is unchanged by it, and the sums below stay small.
Reduced(x) ==
    LET m == MinSeq(x)
        sh == [ i \in 1..Len(x) |-> x[i] - m ]
        g == GcdSeq(sh)
    IN  IF g = 0 THEN sh ELSE [ i \in 1..Len(x) |-> sh[i] \div g ]

\* A window whose entries are all equal: exactly the windows of zero variance.
Constant(x) == \A i \in 1..Len(x) : x[i] = x[1]

\* The NaN of numpy: r then holds a number outside [-1, 1].
NaN == Unit + Unit

\* np.corrcoef(x, y)[1][0]: the Pearson coefficient of two windows, NaN when
\* either has zero variance (0/0), else cov / sqrt(varx * vary) in fixed point
\* (numpy clips it to [-1, 1]).
corrcoef(x, y) ==
    IF Constant(x) \/ Constant(y)
    THEN [ nan |-> TRUE, r |-> NaN ]
    ELSE LET rx == Reduced(x)
             ry == Reduced(y)
             n == Len(x)
             cov == n * Dot(rx, ry) - SumSeq(rx) * SumSeq(ry)
             varx == n * Dot(rx, rx) - SumSeq(rx) * SumSeq(rx)
             vary == n * Dot(ry, ry) - SumSeq(ry) * SumSeq(ry)
             q == (cov * cov * Unit) \div (varx * vary)
             a == Isqrt(q * Unit)
             c == IF a > Unit THEN Unit ELSE a
         IN  [ nan |-> FALSE, r |-> IF cov < 0 THEN -c ELSE c ]

\* The labels the correlation routines skip: 'tot_a', 'b_tot_a', 'rot' and
\* every label containing 'correlation' (the correlation dictionaries, which
\* the model holds apart from the channel series).
Skipped(label) == label = "tot_a" \/ label = "b_tot_a" \/ label = "rot"

\* <series>[lenVec - 32:lenVec]
LastWindow(series, lenVec) == SubSeq(series, lenVec - Window + 1, lenVec)

\* A variant of isnan that takes every coefficient for a number.
isnan_never(correlation) == FALSE

\* np.isnan(correlation[1][0])
isnan(correlation) == correlation.nan

\* The state of one correlation call: the correlation series, the list
\* out_correlations, the appends made and the exception raised.
CorrStore(corr) == [ corr |-> corr, out |-> << >>, ap |-> << >>, error |-> "" ]

\* out_correlations.append([label, corrVal]);
\* <owner>['correlation_<label>'][key].append(corrVal) and the cutoff.
CorrAppend(cs, d_idx, s_idx, label, key, corrVal) ==
    LET cs1 == [ cs EXCEPT !.out = Append(@, << label, corrVal >>) ]
    IN  IF key \notin DOMAIN cs.corr[d_idx][s_idx][label]
        THEN [ cs1 EXCEPT !.error = "KeyError" ]
        ELSE LET grown == Append(cs.corr[d_idx][s_idx][label][key], corrVal)
                 cutoff == Len(grown) - Capacity
             IN  [ cs1 EXCEPT
                     !.corr[d_idx][s_idx][label][key] =
                         IF cutoff > 0 THEN Tail(grown) ELSE grown,
                     !.ap = Append(@, << d_idx, s_idx, label, key, corrVal >>) ]

\* A variant of SelfKey that stores under sensor2, keyed by sensor1.
SelfKeySwapped(i, j) == [ owner |-> j, key |-> << "snsr", i >> ]

\* The key under which calculate_correlation_self stores the coefficient of
\* (sensor1, sensor2) = (snsr_i, snsr_j), and the sensor that owns the series.
SelfKey(i, j) == [ owner |-> i, key |-> << "snsr", j >> ]

\* calculate_correlation_self: the body of "for label in dancer[sensor1]"
SelfLabel(cs, dn, d_idx, i, j, label) ==
    IF Skipped(label) THEN cs
    ELSE LET lenVec1 == Len(dn[d_idx][i][label])
             lenVec2 == Len(dn[d_idx][j][label])
         IN  IF lenVec1 < Window \/ lenVec2 < Window THEN cs
             ELSE LET correlation == corrcoef(LastWindow(dn[d_idx][i][label], lenVec1),
                                              LastWindow(dn[d_idx][j][label], lenVec2))
                      corrVal == IF ~isnan(correlation) THEN correlation.r ELSE 0
                      k == SelfKey(i, j)
                  IN  CorrAppend(cs, d_idx, k.owner, label, k.key, corrVal)

RECURSIVE SelfLabels(_, _, _, _, _, _)
SelfLabels(cs, dn, d_idx, i, j, n) ==
    IF n > Len(labels) \/ cs.error # "" THEN cs
    ELSE SelfLabels(SelfLabel(cs, dn, d_idx, i, j, labels[n]), dn, d_idx, i, j, n + 1)

\* for j in range(i + 1, self.nSensors + 1)
RECURSIVE SelfJ(_, _, _, _, _)
SelfJ(cs, dn, d_idx, i, j) ==
    IF j > number_of_sensors \/ cs.error # "" THEN cs
    ELSE SelfJ(SelfLabels(cs, dn, d_idx, i, j, 1), dn, d_idx, i, j + 1)

\* for i in range(1, self.nSensors)
RECURSIVE SelfI(_, _, _, _)
SelfI(cs, dn, d_idx, i) ==
    IF i > number_of_sensors - 1 \/ cs.error # "" THEN cs
    ELSE SelfI(SelfJ(cs, dn, d_idx, i, i + 1), dn, d_idx, i + 1)

\* for dancer in self.dancers
RECURSIVE SelfDancers(_, _, _)
SelfDancers(cs, dn, d_idx) ==
    IF d_idx > number_of_dancers - 1 \/ cs.error # "" THEN cs
    ELSE SelfDancers(SelfI(cs, dn, d_idx, 1), dn, d_idx + 1)

\* Sensors.calculate_correlation_self()
calculate_correlation_self(dn, corr) == SelfDancers(CorrStore(corr), dn, 0)

\* Python's round(label / 10): to the nearest integer, a tie to the even one.
PyRoundTenth(label) ==
    LET q == label \div 10
        r == label % 10
    IN  IF r < 5 THEN q
        ELSE IF r > 5 THEN q + 1
        ELSE IF q % 2 = 0 THEN q ELSE q + 1

\* self.dancers[k]: Python list indexing, a negative k counts from the end;
\* number_of_dancers stands for an index out of range (IndexError).
PyIndex(k) ==
    IF 0 <= k /\ k < number_of_dancers THEN k
    ELSE IF -number_of_dancers <= k /\ k < 0 THEN k + number_of_dancers
    ELSE number_of_dancers

\* dancer1_idx = round(sensor1_label / 10); sensor1_idx = sensor1_label % 10:
\* the performer and the position that calculate_correlation_others reads
\* from a composite identifier
OthersDecode(label) ==
    [ dancer_idx |-> PyRoundTenth(label), sensor_idx |-> label % 10 ]

\* The key under which calculate_correlation_others stores a coefficient:
\* f'dancer_{dancer2_idx + 1}'
OthersKey(dancer2_idx) == << "dancer", dancer2_idx + 1 >>

\* calculate_correlation_others: the body of "for label in dancer1[sensor1]"
OthersLabel(cs, dn, d1, sensor1_idx, d2, sensor2_idx, dancer2_idx, label) ==
    IF Skipped(label) THEN cs
    ELSE IF sensor2_idx \notin DOMAIN dn[d2] THEN [ cs EXCEPT !.error = "KeyError" ]
    ELSE LET lenVec1 == Len(dn[d1][sensor1_idx][label])
             lenVec2 == Len(dn[d2][sensor2_idx][label])
         IN  IF lenVec1 < Window \/ lenVec2 < Window THEN cs
             ELSE LET correlation == corrcoef(LastWindow(dn[d1][sensor1_idx][label], lenVec1),
                                              LastWindow(dn[d2][sensor2_idx][label], lenVec2))
                      corrVal == IF ~isnan(correlation) THEN correlation.r ELSE 0
                  IN  CorrAppend(cs, d1, sensor1_idx, label, OthersKey(dancer2_idx), corrVal)

RECURSIVE OthersLabels(_, _, _, _, _, _, _, _)
OthersLabels(cs, dn, d1, sensor1_idx, d2, sensor2_idx, dancer2_idx, n) ==
    IF n > Len(labels) \/ cs.error # "" THEN cs
    ELSE OthersLabels(
             OthersLabel(cs, dn, d1, sensor1_idx, d2, sensor2_idx, dancer2_idx, labels[n]),
             dn, d1, sensor1_idx, d2, sensor2_idx, dancer2_idx, n + 1)

\* The body of "for (sensor1_label, sensor2_label) in correlation_others_combos"
OthersCombo(cs, dn, sensor1_label, sensor2_label) ==
    IF sensor1_label = sensor2_label THEN cs
    ELSE LET dancer1_idx == OthersDecode(sensor1_label).dancer_idx
             d1 == PyIndex(dancer1_idx - 1)
             sensor1_idx == OthersDecode(sensor1_label).sensor_idx
             dancer2_idx == OthersDecode(sensor2_label).dancer_idx
             d2 == PyIndex(dancer2_idx - 1)
             sensor2_idx == OthersDecode(sensor2_label).sensor_idx
         IN  IF d1 = number_of_dancers \/ d2 = number_of_dancers
             THEN [ cs EXCEPT !.error = "IndexError" ]
             ELSE IF sensor1_idx \notin DOMAIN dn[d1]
             THEN [ cs EXCEPT !.error = "KeyError" ]
             ELSE OthersLabels(cs, dn, d1, sensor1_idx, d2, sensor2_idx, dancer2_idx, 1)

RECURSIVE OthersCombos(_, _, _, _)
OthersCombos(cs, dn, combos, n) ==
    IF n > Len(combos) \/ cs.error # "" THEN cs
    ELSE OthersCombos(OthersCombo(cs, dn, combos[n][1], combos[n][2]), dn, combos, n + 1)

\* Sensors.calculate_correlation_others()
calculate_correlation_others(dn, corr) ==
    OthersCombos(CorrStore(corr), dn, correlation_others_combos, 1)

\* ------------------------------------------------ calculate_fft, calculate_mfcc

\* What the routine transforms: np.cos(2 * w) for a label containing 'ori',
\* np.cos(2 * np.pi * (1.0 + w)) for one containing 'mag', else the window w.
FeatureInput(label) ==
    IF label \in { "ori_p", "ori_r", "ori_y" } THEN "cos(2w)"
    ELSE IF label \in { "mag_x", "mag_y", "mag_z" } THEN "cos(2pi(1+w))"
    ELSE "w"

\* The body of "for label in dancer[sensor1]" of calculate_fft and of
\* calculate_mfcc: what it appends to the list of features.  A feature vector,
\* np.abs(method(...)), is held as the method, the series it is of, and the
\* transformed window it is computed from.
FeatureLabel(dn, d_idx, i, label, method) ==
    IF Skipped(label) THEN << >>
    ELSE LET lenVec1 == Len(dn[d_idx][i][label])
         IN  IF lenVec1 < Window THEN << >>
             ELSE << [ method |-> method,
                       series |-> << d_idx, i, label >>,
                       input |-> FeatureInput(label),
                       window |-> LastWindow(dn[d_idx][i][label], lenVec1) ] >>

\* for label in dancer[sensor1], from the n-th label on
RECURSIVE FeatureLabels(_, _, _, _, _)
FeatureLabels(dn, d_idx, i, n, method) ==
    IF n > Len(labels) THEN << >>
    ELSE FeatureLabel(dn, d_idx, i, labels[n], method)
            \o FeatureLabels(dn, d_idx, i, n + 1, method)

\* for i in range(1, self.nSensors + 1)
RECURSIVE FeatureSensors(_, _, _, _)
FeatureSensors(dn, d_idx, i, method) ==
    IF i > number_of_sensors THEN << >>
    ELSE FeatureLabels(dn, d_idx, i, 1, method)
            \o FeatureSensors(dn, d_idx, i + 1, method)

\* for dancer in self.dancers
RECURSIVE FeatureDancers(_, _, _)
FeatureDancers(dn, d_idx, method) ==
    IF d_idx > number_of_dancers - 1 THEN << >>
    ELSE FeatureSensors(dn, d_idx, 1, method)
            \o FeatureDancers(dn, d_idx + 1, method)

\* Sensors.calculate_mfcc(fs): mfccAll
calculate_mfcc(dn, fs) == FeatureDancers(dn, 0, "mfcc")

\* Sensors.calculate_fft(): fftAll
calculate_fft(dn) == FeatureDancers(dn, 0, "rfft")

\* ----------------------------------------------------------- recording_loop

\* XdaDevice.__init__(main_device, log_path, threshold=30): self.acc_threshold
acc_threshold == 30

\* recording_loop(timeout=0.2), in ticks: one tick of the clock is 0.1 s.
timeout == 2
TicksPerSecond == 5 * timeout

\* What time() returns when the program starts, in ticks.
StartTime == 100 * TicksPerSecond

\* round(val, 5): val rounded to a multiple of 10^-5, held again in units.
Decimals == 100000
Round5(x) ==
    LET m == (2 * x * Decimals + Unit) \div (2 * Unit)
    IN  (m * Unit) \div Decimals

\* np.pi, in units.
Pi == (355 * Unit) \div 113

\* A local that no statement has assigned yet: the string "unbound" for
\* sensor_id, the number 0 for dancer and sensor (which are 1..3 once bound).
Unbound == "unbound"
UnboundIdx == 0

\* sensor_id, dancer, sensor, timer and data_out of recording_loop: the first
\* three are bound by the first packet that holds a stored device id, timer
\* starts at 0, data_out = StringIO() holds the lines written so far.
NoLocals == [ sensor_id |-> Unbound, dancer |-> UnboundIdx, sensor |-> UnboundIdx,
              timer |-> 0, data_out |-> << >> ]

\* The state of one iteration of the while loop.
LoopState(dn, corr, mm, l) ==
    [ dn |-> dn, corr |-> corr, mm |-> mm, loc |-> l, osc_msg |-> << >>,
      sent |-> << >>, ap |-> << >>, hk |-> << >>, corrap |-> << >>,
      error |-> "" ]

\* self.sensors.send_data(sensor_id, data_type, value) inside the loop
LoopSend(ls, data_type, value) ==
    IF ls.error # "" THEN ls
    ELSE LET r == send_data(ls.dn, ls.loc.sensor_id, data_type, value)
         IN  [ ls EXCEPT !.dn = r.dn, !.ap = @ \o r.ap, !.hk = @ \o r.hk,
                         !.error = r.error ]

\* osc_msg.append(v)
LoopOsc(ls, vs) == IF ls.error # "" THEN ls ELSE [ ls EXCEPT !.osc_msg = @ \o vs ]

\* osc_id = dancer * 10 + sensor
OscId(dancer, sensor) == dancer * 10 + sensor

\* if packet.containsStoredDeviceId(): ...
LoopId(ls, packet) ==
    IF ~packet.hasId THEN ls
    ELSE LET sensor_id == packet.id
         IN  IF sensor_id \notin DOMAIN locations
             THEN [ ls EXCEPT !.loc.sensor_id = sensor_id, !.error = "KeyError" ]
             ELSE LET dancer == locations[sensor_id][2]
                      sensor == locations[sensor_id][3]
                      osc_id == OscId(dancer, sensor)
                  IN  [ ls EXCEPT !.loc.sensor_id = sensor_id,
                                  !.loc.dancer = dancer,
                                  !.loc.sensor = sensor,
                                  !.osc_msg = Append(@, osc_id) ]

\* tot_acc[0] > self.acc_threshold and time() - timer > self.acc_threshold
HitFlag(tot, t, timer) ==
    IF tot > acc_threshold * Unit /\ t - timer > acc_threshold * TicksPerSecond
    THEN 1 ELSE 0

\* acc = packet.freeAcceleration() / 100.0 ... send_data(sensor_id, 'tot_a',
\* tot_acc): the acceleration part of the calibrated data
LoopAcc(ls, packet, t) ==
    LET acc == [ i \in 1..3 |-> (packet.acc[i] * Unit) \div 100 ]
        acc_value == [ i \in 1..3 |-> Round5(acc[i]) ]
        tot == Isqrt(acc[1] * acc[1] + acc[2] * acc[2] + acc[3] * acc[3])
        flag == HitFlag(tot, t, ls.loc.timer)
        tot_acc == << tot, flag >>
    IN  LoopSend(
            LoopSend(
                LoopOsc([ ls EXCEPT !.loc.timer = IF flag = 1 THEN t ELSE @ ],
                        << acc_value[1], acc_value[2], acc_value[3],
                           Round5(tot_acc[1]), tot_acc[2] * Unit >>),
                "acc", acc_value),
            "tot_a", tot_acc)

\* The statements that follow rot_value = self.sensors.scale_data(...), sc
\* being what that call returned.
LoopGyr(ls, gyr, sc) ==
    IF sc.error # "" THEN [ ls EXCEPT !.mm = sc.minmax, !.error = sc.error ]
    ELSE LET rot_value == sc.scaled_data
             gyr_value == [ i \in 1..3 |-> Round5(gyr[i]) ]
         IN  LoopSend(
                 LoopSend(
                     LoopOsc([ ls EXCEPT !.mm = sc.minmax ],
                             << gyr_value[1], gyr_value[2], gyr_value[3],
                                Round5(rot_value[1]) >>),
                     "gyr", gyr_value),
                 "rot", rot_value)

\* gyr = packet.calibratedGyroscopeData() ... send_data(sensor_id, 'rot',
\* rot_value): the gyroscope part of the calibrated data
LoopRot(ls, gyr) ==
    IF ls.error # "" THEN ls
    ELSE LoopGyr(ls, gyr,
                 scale_data(ls.mm, ls.loc.sensor_id, "rot",
                            << Isqrt(gyr[1] * gyr[1] + gyr[2] * gyr[2]
                                       + gyr[3] * gyr[3]) >>))

\* mag = packet.calibratedMagneticField() ... send_data(sensor_id, 'mag',
\* mag_value): the magnetic field part of the calibrated data
LoopMag(ls, mag_value) ==
    LoopSend(LoopOsc(ls, << Round5(mag_value[1]), Round5(mag_value[2]),
                            Round5(mag_value[3]) >>),
             "mag", mag_value)

\* if packet.containsCalibratedData(): ...
LoopCalibrated(ls, packet, t) ==
    IF ls.error # "" \/ ~packet.hasCal THEN ls
    ELSE IF ls.loc.sensor_id = Unbound
    THEN [ ls EXCEPT !.error = "UnboundLocalError" ]
    ELSE LoopMag(LoopRot(LoopAcc(ls, packet, t),
                         [ i \in 1..3 |-> packet.gyr[i] * Unit ]),
                 [ i \in 1..3 |-> packet.mag[i] * Unit ])

\* osc_msg.append(...) seven times, then send_data(sensor_id, 'ori', [...])
LoopEuler(ls, euler_value, q1) ==
    IF ls.loc.sensor_id = Unbound
    THEN [ LoopOsc(ls, << euler_value[1] + Pi, euler_value[2] + Pi,
                          euler_value[3] + Pi, q1[1], q1[2], q1[3], q1[4] >>)
           EXCEPT !.error = "UnboundLocalError" ]
    ELSE LoopSend(LoopOsc(ls, << euler_value[1] + Pi, euler_value[2] + Pi,
                                 euler_value[3] + Pi,
                                 q1[1], q1[2], q1[3], q1[4] >>),
                  "ori", euler_value)

\* if packet.containsOrientation(): ...
LoopOrientation(ls, packet) ==
    IF ls.error # "" \/ ~packet.hasOri THEN ls
    ELSE LoopEuler(ls,
                   << (Pi * packet.euler[1]) \div 180 + Unit,
                      (Pi * packet.euler[2]) \div 180,
                      (Pi * packet.euler[3]) \div 180 + Unit >>,
                   << packet.quat[1] * Unit, -(packet.quat[2] * Unit),
                      packet.quat[4] * Unit, packet.quat[3] * Unit >>)

\* message = OSCMessage(f'/xsens{dancer}{sensor}', None, osc_msg); osc_send(...)
LoopMessage(ls) ==
    IF ls.error # "" THEN ls
    ELSE IF ls.loc.dancer = UnboundIdx
    THEN [ ls EXCEPT !.error = "UnboundLocalError" ]
    ELSE [ ls EXCEPT !.sent = Append(@, [ dancer |-> ls.loc.dancer,
                                          sensor |-> ls.loc.sensor,
                                          suffix |-> "",
                                          args |-> ls.osc_msg ]) ]

\* f'{elem}: ' for one element of osc_msg: the text of the element is held as
\* its type and value.  osc_id is an int ('12'), every other element a float
\* ('1.0'); osc_id is the first element when the packet held a stored id.
LogElem(osc_msg, n, hasId) ==
    [ kind |-> IF n = 1 /\ hasId THEN "int" ELSE "float", v |-> osc_msg[n] ]

\* if self.saveLog: the line written to data_out for the packet, with logging
\* switched on: every element of osc_msg followed by ': ', then '\n'.
LoopLog(ls, packet) ==
    IF ls.error # "" THEN ls
    ELSE [ ls EXCEPT !.loc.data_out =
                Append(@, [ n \in 1..Len(ls.osc_msg) |->
                                LogElem(ls.osc_msg, n, packet.hasId) ]) ]

\* osc_msg = [round(val[1], 5) ...]; osc_send(OSCMessage(f'/xsens{dancer}
\* {sensor}-correlation-others', None, osc_msg)), r being what
\* calculate_correlation_others returned.
LoopOthersSend(ls, r, osc_msg) ==
    IF r.error # ""
    THEN [ ls EXCEPT !.corr = r.corr, !.corrap = r.ap, !.osc_msg = << >>,
                     !.error = r.error ]
    ELSE [ ls EXCEPT !.corr = r.corr, !.corrap = r.ap, !.osc_msg = osc_msg,
                     !.sent = Append(@, [ dancer |-> ls.loc.dancer,
                                          sensor |-> ls.loc.sensor,
                                          suffix |-> "-correlation-others",
                                          args |-> osc_msg ]) ]

\* correlation_others = self.sensors.calculate_correlation_others()
LoopOthersResult(ls, r) ==
    LoopOthersSend(ls, r, [ i \in 1..Len(r.out) |-> Round5(r.out[i][2]) ])

\* if sensor == 1 and dancer == 1: the correlations with the other dancers
LoopOthers(ls) ==
    IF ls.error # "" \/ ~(ls.loc.sensor = 1 /\ ls.loc.dancer = 1) THEN ls
    ELSE LoopOthersResult(ls, calculate_correlation_others(ls.dn, ls.corr))

\* The body of "while self.recording" for one packet taken from the callback
\* at time t.
LoopBody(dn, corr, mm, l, packet, t) ==
    LoopOthers(
        LoopLog(
            LoopMessage(
                LoopOrientation(
                    LoopCalibrated(
                        LoopId(LoopState(dn, corr, mm, l), packet),
                        packet, t),
                    packet)),
            packet))

\* ------------------------------------------------- plot_log, send_log_data

\* The '\n' that ends a line of the log: the last field of line.split(': ').
Newline == [ kind |-> "newline", v |-> 0 ]

\* if split[0] == '11:': sensor_id = '00B4F115' ... elif split[0] == '33:':
\* the id plot_log takes for the first field of a line; the id of the line
\* before when the field is none of the nine.
PlotLogId(head, sensor_id) ==
    IF head.kind # "int" THEN sensor_id
    ELSE CASE head.v = 11 -> "00B4F115"
           [] head.v = 12 -> "00B4F116"
           [] head.v = 13 -> "00B4F11D"
           [] head.v = 21 -> "00B42D56"
           [] head.v = 22 -> "00B42D32"
           [] head.v = 23 -> "00B42D44"
           [] head.v = 31 -> "00B42D54"
           [] head.v = 32 -> "00B42D4E"
           [] head.v = 33 -> "00B42B48"
           [] OTHER -> sensor_id

\* float(val) of a field: an int text gives its value as a float, the text of
\* a float gives the float back.
ParseFloat(field) == IF field.kind = "int" THEN field.v * Unit ELSE field.v

\* split[a:b] of Python: the fields a .. b - 1 (0-based), as many as there are.
PySlice(split, a, b) ==
    SubSeq(split, a + 1, IF b < Len(split) THEN b ELSE Len(split))

\* [float(val) for val in split[a:b]]
ParseSlice(split, a, b) ==
    [ n \in 1..Len(PySlice(split, a, b)) |-> ParseFloat(PySlice(split, a, b)[n]) ]

\* The exception raised while the six values of a line are parsed:
\* float('\n') raises ValueError, split[4] and split[8] raise IndexError on a
\* short line.
ParseError(split) ==
    IF \E n \in 2..(IF Len(split) < 4 THEN Len(split) ELSE 4) : split[n] = Newline
    THEN "ValueError"
    ELSE IF Len(split) < 5 THEN "IndexError"
    ELSE IF \E n \in 5..(IF Len(split) < 8 THEN Len(split) ELSE 8) : split[n] = Newline
    THEN "ValueError"
    ELSE IF Len(split) < 9 THEN "IndexError"
    ELSE IF \E n \in 9..(IF Len(split) < 15 THEN Len(split) ELSE 15) : split[n] = Newline
    THEN "ValueError"
    ELSE ""

\* The branch for 'ori' of send_log_data: the three appends, then
\* data_label = f'{data_type}_{pry}' reads pry before the for statement has
\* bound it.
LogOri(st, d_idx, s_idx, data_type, value) ==
    IF Len(value) < 3 THEN [ st EXCEPT !.error = "IndexError" ]
    ELSE [ StAppend(StAppend(StAppend(st, d_idx, s_idx, Label(data_type, "p"), value[1]),
                             d_idx, s_idx, Label(data_type, "r"), value[2]),
                    d_idx, s_idx, Label(data_type, "y"), value[3])
           EXCEPT !.error = "UnboundLocalError" ]

\* send_log_data(sensor_id, data_type, value, dancers, locations, axes) on the
\* store st.  The branches for 'acc', 'gyr', 'mag', 'rot' and 'tot_a' are the
\* statements of the same branches of send_data.
send_log_data(st, sensor_id, data_type, value) ==
    IF st.error # "" THEN st
    ELSE IF sensor_id \notin DOMAIN locations THEN [ st EXCEPT !.error = "KeyError" ]
    ELSE CASE data_type \in { "acc", "gyr", "mag" } ->
                SendXYZ(st, locations[sensor_id][2] - 1, locations[sensor_id][3],
                        data_type, value, 1)
           [] data_type = "ori" ->
                LogOri(st, locations[sensor_id][2] - 1, locations[sensor_id][3],
                       data_type, value)
           [] data_type = "rot" ->
                SendRot(st, locations[sensor_id][2] - 1, locations[sensor_id][3],
                        data_type, value)
           [] data_type = "tot_a" ->
                SendTotA(st, locations[sensor_id][2] - 1, locations[sensor_id][3],
                         data_type, value)
           [] OTHER -> st

\* The six send_log_data calls plot_log makes for one line, split being
\* line.split(': ').
PlotLogSend(st, sensor_id, split) ==
    send_log_data(
      send_log_data(
        send_log_data(
          send_log_data(
            send_log_data(
              send_log_data(st, sensor_id, "acc", ParseSlice(split, 1, 4)),
              sensor_id, "tot_a", << ParseFloat(split[5]), 0 >>),
            sensor_id, "gyr", ParseSlice(split, 5, 8)),
          sensor_id, "rot", << ParseFloat(split[9]) >>),
        sensor_id, "mag", ParseSlice(split, 9, 12)),
      sensor_id, "ori", ParseSlice(split, 12, 15))

\* The body of "for line in log_handle.readlines()" for a line whose id has
\* been read.
PlotLogFields(st, sensor_id, split) ==
    IF ParseError(split) # ""
    THEN [ st EXCEPT !.error = ParseError(split) ]
    ELSE PlotLogSend(st, sensor_id, split)

\* plot_log from line n of the file on: st.sensor_id is the local sensor_id,
\* None before the first line.
RECURSIVE PlotLogLines(_, _, _)
PlotLogLines(st, lines, n) ==
    IF n > Len(lines) \/ st.error # "" THEN st
    ELSE IF lines[n] = << >> THEN [ st EXCEPT !.error = "IndexError" ]
    ELSE PlotLogLines(
            [ PlotLogFields(st, PlotLogId(lines[n][1], st.sensor_id),
                            Append(lines[n], Newline))
              EXCEPT !.sensor_id = PlotLogId(lines[n][1], st.sensor_id) ],
            lines, n + 1)

\* plot_log(file_path, dancers, axes) on the file holding lines.
plot_log(lines, dn) ==
    PlotLogLines([ dn |-> dn, ap |-> << >>, hk |-> << >>, raises |-> 0,
                   error |-> "", sensor_id |-> None ],
                 lines, 1)

\* ------------------------------------------- bring-up and shutdown of the device

\* self.port = xda.XsScanner_scanPorts(): the ports found by open_device.
port == << "port_1", "port_2" >>

\* What can fail in configure_device besides set_ids: gotoConfig() raises,
\* children() raises, status(ids=True) raises.
ConfigureFailures == { "none", "gotoConfig", "children", "status" }

\* The calls configure_device makes, error being what set_ids raised ("" when
\* it returned).  Every except clause after enableRadio calls disableRadio()
\* and then sys.exit(1).
configure_device(fail, error) ==
    IF fail = "gotoConfig" THEN << "gotoConfig", "sys.exit" >>
    ELSE << "gotoConfig", "enableRadio", "setOptions", "childCount", "children" >>
         \o ( IF fail = "children" \/ fail = "status" \/ error # ""
              THEN << "disableRadio", "sys.exit" >>
              ELSE << >> )

\* What can fail in go_to_recording_mode: gotoMeasurement() raises,
\* createLogFile() does not return XRV_OK, startRecording() raises.
RecordingModeFailures == { "none", "gotoMeasurement", "createLogFile", "startRecording" }

\* The calls go_to_recording_mode makes.
go_to_recording_mode(fail) ==
    IF fail = "gotoMeasurement"
    THEN << "gotoMeasurement", "disableRadio", "sys.exit" >>
    ELSE IF fail = "createLogFile"
    THEN << "gotoMeasurement", "children", "createLogFile", "disableRadio", "sys.exit" >>
    ELSE IF fail = "startRecording"
    THEN << "gotoMeasurement", "children", "createLogFile", "startRecording",
            "disableRadio", "sys.exit" >>
    ELSE << "gotoMeasurement", "children", "createLogFile", "startRecording" >>

\* The calls recording_loop makes after the while loop when none fails:
\* closePort once for every port.
ShutdownSteps ==
    << "stopRecording", "closeLogFile", "clearCallbackHandlers", "disableRadio" >>
        \o [ n \in 1..Len(port) |-> "closePort" ]
        \o << "close" >>

\* The calls recording_loop makes after the while loop when step number fail
\* of ShutdownSteps raises (or closeLogFile returns False), 0 for none: every
\* handler calls disableRadio() and then sys.exit(1).
shutdown(fail) ==
    IF fail = 0 THEN ShutdownSteps
    ELSE SubSeq(ShutdownSteps, 1, fail) \o << "disableRadio", "sys.exit" >>

\* ------------------------------------------------------------------ inputs

\* What a caller passes to send_data.  Sensor 00B4F114 (dancer 1, sensor 2,
\* the source of the configured pair (12, 22)) receives every data type;
\* 00B4F116 (dancer 2, sensor 2, the target of the pair) and 00B4F115
\* (dancer 1, sensor 3) receive acceleration; UnknownId is an id that
\* Sensors.locations does not hold.
UnknownId == "00B42D56"

SendCalls ==
    { << "00B4F114", "acc", << 1, 2, 3 >> >>,
      << "00B4F114", "acc", << 3, 1, 2 >> >>,
      << "00B4F114", "gyr", << 2, 2, 1 >> >>,
      << "00B4F114", "mag", << 5, 4, 6 >> >>,
      << "00B4F114", "ori", << 4, 5, 6 >> >>,
      << "00B4F114", "rot", << 8 >> >>,
      << "00B4F114", "tot_a", << 7, 0 >> >>,
      << "00B4F114", "tot_a", << 9, 1 >> >>,
      << "00B4F116", "acc", << 2, 3, 1 >> >>,
      << "00B4F115", "acc", << 1, 3, 2 >> >>,
      << UnknownId, "rot", << 8 >> >> }

\* The lists of connected sensors device.children() may return.
SensorLists ==
    { << "00B4F114", "00B4F116" >>, << "00B4F116", "00B4F11A", "00B4F114" >> }

\* What a caller passes to scale_data: a sensor id (00B4F11D is never
\* connected), a data type and raw values, each a whole number of units in
\* -1 .. MaxRaw.
ScaleIds == { "00B4F114", "00B4F116", "00B4F11D" }

RawValues == { r * Unit : r \in (-1)..MaxRaw }

ScaleCalls ==
    { << id, "rot", << v >> >> : id \in ScaleIds, v \in RawValues }
        \cup { << id, "acc", << -Unit, 2 * Unit, 0 >> >> : id \in ScaleIds }
        \cup { << id, "acc", << Unit, 0, MaxRaw * Unit >> >> : id \in ScaleIds }

\* The packets the callback hands to recording_loop.  freeAcceleration is in
\* hundredths, the gyroscope, the magnetic field and the quaternion in whole
\* numbers, the Euler angles in degrees.  00B4F11D is held by
\* Sensors.locations but is in no list of connected sensors; UnknownId is not
\* held by Sensors.locations.
Packet(hasId, id, hasCal, acc, gyr, hasOri) ==
    [ hasId |-> hasId, id |-> id, hasCal |-> hasCal, acc |-> acc, gyr |-> gyr,
      mag |-> << 1, 0, 2 >>, hasOri |-> hasOri, euler |-> << 180, 0, 90 >>,
      quat |-> << 1, 0, 2, 3 >> ]

Packets ==
    { Packet(TRUE, "00B4F11A", TRUE, << 3000, 4000, 0 >>, << 1, 2, 2 >>, TRUE),
      Packet(TRUE, "00B4F11A", TRUE, << 0, 0, 100 >>, << 0, 0, 2 >>, FALSE),
      Packet(TRUE, "00B4F114", TRUE, << 100, 200, 200 >>, << 0, 2, 0 >>, TRUE),
      Packet(TRUE, "00B4F116", TRUE, << 4000, 0, 3000 >>, << 2, 1, 2 >>, FALSE),
      Packet(TRUE, "00B4F116", FALSE, << 0, 0, 0 >>, << 0, 0, 0 >>, TRUE),
      Packet(FALSE, "", TRUE, << 200, 100, 200 >>, << 0, 0, 1 >>, FALSE),
      Packet(TRUE, "00B4F11D", TRUE, << 100, 0, 0 >>, << 0, 0, 1 >>, FALSE),
      Packet(TRUE, UnknownId, TRUE, << 100, 0, 0 >>, << 0, 0, 1 >>, FALSE) }

\* The time that passes between two packets, in ticks: 0.2 s and 40 s.
TimeSteps == { timeout, 40 * TicksPerSecond }

NoIter == [ packet |-> << >>, error |-> "", sent |-> << >>, appends |-> << >>,
            hooks |-> << >>, corr |-> << >> ]

NoCall == [ op |-> "init", sensor_id |-> "", data_type |-> "", value |-> << >>,
            error |-> "", appends |-> << >>, hooks |-> << >>, corr |-> << >>,
            ret |-> << >>, before |-> << >>, prior |-> << >> ]

\* The bounds scale_data reads for sensor_id and data_type: the lists
\* {data_type}_min and {data_type}_max of the first entry of minmax holding
\* the id, << >> when no entry holds it.
BoundsOf(mm, sensor_id, data_type) ==
    IF FirstWithId(mm, sensor_id) = 0 THEN << >>
    ELSE [ min |-> mm[FirstWithId(mm, sensor_id)][MinKey(data_type)],
           max |-> mm[FirstWithId(mm, sensor_id)][MaxKey(data_type)] ]

\* What the call c left for a scale_data call that follows it for the same
\* sensor and data type: its value, what it returned and the bounds it read;
\* << >> when c is no such call or did not return.
PriorOf(c, sensor_id, data_type) ==
    IF /\ c.op = "scale_data"
       /\ c.error = ""
       /\ c.sensor_id = sensor_id
       /\ c.data_type = data_type
    THEN [ value |-> c.value, ret |-> c.ret, before |-> c.before ]
    ELSE << >>

\* ----------------------------------------------------------------- actions

Init ==
    /\ dancers = DancersInit
    /\ correlations = CorrelationsInit
    /\ minmax = MinMaxInit
    /\ sensors = None
    /\ call = NoCall
    /\ appendLog = << >>
    /\ corrLog = << >>
    /\ nCalls = 0
    /\ pc = "idle"
    /\ recording = FALSE
    /\ loc = NoLocals
    /\ now = StartTime
    /\ iter = NoIter
    /\ nPackets = 0
    /\ device = << >>

\* A caller calls send_data(sensor_id, data_type, value).
SendData ==
    /\ nCalls < MaxCalls
    /\ \E c \in SendCalls :
            LET sensor_id == c[1]
                data_type == c[2]
                value == c[3]
                r == send_data(dancers, sensor_id, data_type, value)
            IN  /\ dancers' = r.dn
                /\ appendLog' = appendLog \o r.ap
                /\ call' = [ NoCall EXCEPT !.op = "send_data",
                                           !.sensor_id = sensor_id,
                                           !.data_type = data_type,
                                           !.value = value,
                                           !.error = r.error,
                                           !.appends = r.ap,
                                           !.hooks = r.hk ]
    /\ nCalls' = nCalls + 1
    /\ UNCHANGED << correlations, minmax, sensors, corrLog >>
    /\ UNCHANGED loopVars

\* A caller calls calculate_correlation_self().
CorrelationSelf ==
    /\ nCalls < MaxCalls
    /\ LET r == calculate_correlation_self(dancers, correlations)
       IN  /\ correlations' = r.corr
           /\ corrLog' = corrLog \o r.ap
           /\ call' = [ NoCall EXCEPT !.op = "calculate_correlation_self",
                                      !.error = r.error,
                                      !.corr = r.ap,
                                      !.ret = r.out ]
    /\ nCalls' = nCalls + 1
    /\ UNCHANGED << dancers, minmax, sensors, appendLog >>
    /\ UNCHANGED loopVars

\* A caller calls calculate_correlation_others().
CorrelationOthers ==
    /\ nCalls < MaxCalls
    /\ LET r == calculate_correlation_others(dancers, correlations)
       IN  /\ correlations' = r.corr
           /\ corrLog' = corrLog \o r.ap
           /\ call' = [ NoCall EXCEPT !.op = "calculate_correlation_others",
                                      !.error = r.error,
                                      !.corr = r.ap,
                                      !.ret = r.out ]
    /\ nCalls' = nCalls + 1
    /\ UNCHANGED << dancers, minmax, sensors, appendLog >>
    /\ UNCHANGED loopVars

Next == SendData \/ CorrelationSelf \/ CorrelationOthers

\* configure_device: self.sensors.sensors = self.device.children(), then
\* set_ids().  It runs once, in the bring-up of the device.
SetIds ==
    /\ sensors = None
    /\ \E snsrs \in SensorLists :
            LET r == set_ids(minmax, snsrs)
            IN  /\ sensors' = snsrs
                /\ minmax' = r.minmax
                /\ call' = [ NoCall EXCEPT !.op = "set_ids", !.error = r.error ]
    /\ UNCHANGED << dancers, correlations, appendLog, corrLog, nCalls >>
    /\ UNCHANGED loopVars

\* A caller calls scale_data(sensor_id, data_type, value).
ScaleData ==
    /\ nCalls < MaxCalls
    /\ \E c \in ScaleCalls :
            LET r == scale_data(minmax, c[1], c[2], c[3])
            IN  /\ minmax' = r.minmax
                /\ call' = [ NoCall EXCEPT !.op = "scale_data",
                                           !.sensor_id = c[1],
                                           !.data_type = c[2],
                                           !.value = c[3],
                                           !.error = r.error,
                                           !.ret = r.scaled_data,
                                           !.before = BoundsOf(minmax, c[1], c[2]),
                                           !.prior = PriorOf(call, c[1], c[2]) ]
    /\ nCalls' = nCalls + 1
    /\ UNCHANGED << dancers, correlations, sensors, appendLog, corrLog >>
    /\ UNCHANGED loopVars

ScaleNext == SetIds \/ ScaleData

ScaleSpec == Init /\ [][ScaleNext]_vars

Spec == Init /\ [][Next]_vars


\* The dashboard switches recording on and calls recording_loop(), after
\* configure_device has set the sensor ids.
StartRecording ==
    /\ pc = "idle"
    /\ sensors # None
    /\ pc' = "loop"
    /\ recording' = TRUE
    /\ loc' = NoLocals
    /\ UNCHANGED << now, iter, nPackets, device >>
    /\ UNCHANGED storeVars

\* What one pass of the loop leaves behind, r being what the body returned.
LoopCommit(r, packet, t) ==
    /\ now' = t
    /\ dancers' = r.dn
    /\ correlations' = r.corr
    /\ minmax' = r.mm
    /\ loc' = r.loc
    /\ appendLog' = appendLog \o r.ap
    /\ corrLog' = corrLog \o r.corrap
    /\ iter' = [ packet |-> packet, error |-> r.error, sent |-> r.sent,
                 appends |-> r.ap, hooks |-> r.hk, corr |-> r.corrap ]
    /\ pc' = IF r.error # "" THEN "raised" ELSE "loop"

\* One pass of "while self.recording" that finds a packet available.  An
\* exception raised in the body leaves recording_loop.
LoopPacket ==
    /\ pc = "loop"
    /\ recording
    /\ nPackets < MaxPackets
    /\ \E packet \in Packets, dt \in TimeSteps :
            LoopCommit(LoopBody(dancers, correlations, minmax, loc, packet,
                                now + dt),
                       packet, now + dt)
    /\ nPackets' = nPackets + 1
    /\ UNCHANGED << sensors, call, nCalls, recording, device >>

\* The "Recording on/off" button of the dashboard sets self.recording = False.
StopRecording ==
    /\ pc = "loop"
    /\ recording
    /\ recording' = FALSE
    /\ UNCHANGED << pc, loc, now, iter, nPackets, device >>
    /\ UNCHANGED storeVars

\* The while loop ends.  The statements that close the device after it are
\* the action Shutdown.
LoopExit ==
    /\ pc = "loop"
    /\ ~recording
    /\ pc' = "done"
    /\ UNCHANGED << recording, loc, now, iter, nPackets, device >>
    /\ UNCHANGED storeVars

LoopNext == SetIds \/ StartRecording \/ LoopPacket \/ StopRecording \/ LoopExit

LoopSpec == Init /\ [][LoopNext]_vars

\* The composite identifiers a pair of correlation_others_combos can hold:
\* performer * 10 + position for the performers of dancers() and the positions
\* one decimal digit can name.
Performers == 1..number_of_dancers
Positions == 1..9

\* The store of Sensors() and a pair (sensor1_label, sensor2_label) that is
\* about to be decoded; value holds the performers and positions encoded.
DecodeInit ==
    /\ dancers = DancersInit
    /\ correlations = CorrelationsInit
    /\ minmax = MinMaxInit
    /\ sensors = None
    /\ \E p1 \in Performers, s1 \in Positions, p2 \in Performers, s2 \in Positions :
            call = [ NoCall EXCEPT !.op = "combo",
                                   !.value = << p1, s1, p2, s2 >>,
                                   !.ret = << OscId(p1, s1), OscId(p2, s2) >> ]
    /\ appendLog = << >>
    /\ corrLog = << >>
    /\ nCalls = 0
    /\ pc = "idle"
    /\ recording = FALSE
    /\ loc = NoLocals
    /\ now = StartTime
    /\ iter = NoIter
    /\ nPackets = 0
    /\ device = << >>

\* calculate_correlation_others decodes the pair: dancer1_idx, sensor1_idx,
\* dancer2_idx, sensor2_idx.
Decode ==
    /\ call.op = "combo"
    /\ call' = [ call EXCEPT !.op = "decoded",
                             !.ret = << OthersDecode(call.ret[1]).dancer_idx,
                                        OthersDecode(call.ret[1]).sensor_idx,
                                        OthersDecode(call.ret[2]).dancer_idx,
                                        OthersDecode(call.ret[2]).sensor_idx >> ]
    /\ UNCHANGED << dancers, correlations, minmax, sensors, appendLog, corrLog,
                    nCalls >>
    /\ UNCHANGED loopVars

DecodeNext == Decode

DecodeSpec == DecodeInit /\ [][DecodeNext]_vars

\* The sampling rates a caller passes to calculate_mfcc.
SampleRates == { 60, 100 }

\* A caller calls calculate_fft().
CalculateFft ==
    /\ nCalls < MaxCalls
    /\ call' = [ NoCall EXCEPT !.op = "calculate_fft",
                               !.ret = calculate_fft(dancers) ]
    /\ nCalls' = nCalls + 1
    /\ UNCHANGED << dancers, correlations, minmax, sensors, appendLog, corrLog >>
    /\ UNCHANGED loopVars

\* A caller calls calculate_mfcc(fs).
CalculateMfcc ==
    /\ nCalls < MaxCalls
    /\ \E fs \in SampleRates :
            call' = [ NoCall EXCEPT !.op = "calculate_mfcc",
                                    !.value = << fs >>,
                                    !.ret = calculate_mfcc(dancers, fs) ]
    /\ nCalls' = nCalls + 1
    /\ UNCHANGED << dancers, correlations, minmax, sensors, appendLog, corrLog >>
    /\ UNCHANGED loopVars

FeatureNext == SendData \/ CalculateFft \/ CalculateMfcc

FeatureSpec == Init /\ [][FeatureNext]_vars

\* Which of the configure_item calls of a send_data call raises: a call makes
\* at most one per series of its kind.
HookNumbers == 1..Len(axes)

\* A caller calls send_data(sensor_id, data_type, value) and the n-th call to
\* dpg.configure_item raises (the item is not there, the viewport is closed).
SendDataHookRaises ==
    /\ nCalls < MaxCalls
    /\ \E c \in SendCalls, n \in HookNumbers :
            LET r == send_data_raising(dancers, c[1], c[2], c[3], n)
            IN  /\ r.error = "SystemError"
                /\ dancers' = r.dn
                /\ appendLog' = appendLog \o r.ap
                /\ call' = [ NoCall EXCEPT !.op = "send_data",
                                           !.sensor_id = c[1],
                                           !.data_type = c[2],
                                           !.value = c[3],
                                           !.error = r.error,
                                           !.appends = r.ap,
                                           !.hooks = r.hk,
                                           !.ret = << n >> ]
    /\ nCalls' = nCalls + 1
    /\ UNCHANGED << correlations, minmax, sensors, corrLog >>
    /\ UNCHANGED loopVars

HookNext == SendData \/ SendDataHookRaises

HookSpec == Init /\ [][HookNext]_vars

\* A stream of identical raw values: every data type, the raw value repeated
\* in each of the components the type has.
StreamCalls ==
    { << id, t, [ i \in 1..Len(MinMaxInit[1][MinKey(t)]) |-> v ] >> :
        id \in ScaleIds, t \in DataTypes, v \in RawValues }

\* A caller calls scale_data again and again with the same sensor id, data
\* type and value; the first call follows set_ids.  The bounds settle with
\* the first call: from the third call on a call leaves every variable as it
\* was, and the stream going on for ever is the state repeating.
StreamScale ==
    /\ call.op \in { "set_ids", "scale_data" }
    /\ \E c \in StreamCalls :
            /\ call.op = "scale_data" =>
                    c = << call.sensor_id, call.data_type, call.value >>
            /\ minmax' = scale_data(minmax, c[1], c[2], c[3]).minmax
            /\ call' = [ NoCall EXCEPT !.op = "scale_data",
                                       !.sensor_id = c[1],
                                       !.data_type = c[2],
                                       !.value = c[3],
                                       !.error = scale_data(minmax, c[1], c[2], c[3]).error,
                                       !.ret = scale_data(minmax, c[1], c[2], c[3]).scaled_data,
                                       !.before = BoundsOf(minmax, c[1], c[2]),
                                       !.prior = PriorOf(call, c[1], c[2]) ]
    /\ nCalls' = IF nCalls < MaxCalls THEN nCalls + 1 ELSE nCalls
    /\ UNCHANGED << dancers, correlations, sensors, appendLog, corrLog >>
    /\ UNCHANGED loopVars

StreamNext == SetIds \/ StreamScale

\* The stream does not stop: the caller is the recording loop, which calls
\* scale_data for every packet.
StreamSpec == Init /\ [][StreamNext]_vars /\ WF_vars(SetIds) /\ WF_vars(StreamScale)

\* The dashboard replays the log that recording_loop saved: plot_log on the
\* lines of data_out and on the store of the dashboard.
PlotLog ==
    /\ pc = "done"
    /\ loc.data_out # << >>
    /\ call.op # "plot_log"
    /\ dancers' = plot_log(loc.data_out, dancers).dn
    /\ appendLog' = appendLog \o plot_log(loc.data_out, dancers).ap
    /\ call' = [ NoCall EXCEPT !.op = "plot_log",
                               !.value = loc.data_out,
                               !.error = plot_log(loc.data_out, dancers).error,
                               !.appends = plot_log(loc.data_out, dancers).ap,
                               !.hooks = plot_log(loc.data_out, dancers).hk ]
    /\ UNCHANGED << correlations, minmax, sensors, corrLog, nCalls >>
    /\ UNCHANGED loopVars

ReplayNext == LoopNext \/ PlotLog

ReplaySpec == Init /\ [][ReplayNext]_vars

\* The lists of connected sensors configure_device can find: those of
\* SensorLists and one holding an id that Sensors.locations does not hold.
DeviceSensorLists == SensorLists \cup { << "00B4F114", UnknownId >> }

\* The dashboard calls configure_device().
ConfigureDevice ==
    /\ pc = "idle"
    /\ sensors = None
    /\ device = << >>
    /\ \E snsrs \in DeviceSensorLists, fail \in ConfigureFailures :
            /\ device' = configure_device(fail, set_ids(minmax, snsrs).error)
            /\ sensors' = IF fail \in { "gotoConfig", "children" } THEN sensors ELSE snsrs
            /\ minmax' = IF fail = "none" THEN set_ids(minmax, snsrs).minmax ELSE minmax
            /\ call' = IF fail = "none"
                       THEN [ NoCall EXCEPT !.op = "set_ids",
                                            !.error = set_ids(minmax, snsrs).error ]
                       ELSE call
            /\ pc' = IF fail = "none" /\ set_ids(minmax, snsrs).error = ""
                     THEN "configured" ELSE "exited"
    /\ UNCHANGED << dancers, correlations, appendLog, corrLog, nCalls >>
    /\ UNCHANGED << recording, loc, now, iter, nPackets >>

\* The dashboard calls go_to_recording_mode().
GoToRecordingMode ==
    /\ pc = "configured"
    /\ \E fail \in RecordingModeFailures :
            /\ device' = device \o go_to_recording_mode(fail)
            /\ pc' = IF fail = "none" THEN "idle" ELSE "exited"
    /\ UNCHANGED << recording, loc, now, iter, nPackets >>
    /\ UNCHANGED storeVars

\* One pass of "while self.recording" during which the "Recording on/off"
\* button of the dashboard sets self.recording = False: the dashboard runs
\* beside the loop, and the loop reads the flag again only when the pass has
\* ended.
StopDuringPacket ==
    /\ pc = "loop"
    /\ recording
    /\ nPackets < MaxPackets
    /\ \E packet \in Packets, dt \in TimeSteps :
            LoopCommit(LoopBody(dancers, correlations, minmax, loc, packet,
                                now + dt),
                       packet, now + dt)
    /\ nPackets' = nPackets + 1
    /\ recording' = FALSE
    /\ UNCHANGED << sensors, call, nCalls, device >>

\* The while loop ends and recording_loop closes the device.
Shutdown ==
    /\ pc = "loop"
    /\ ~recording
    /\ \E fail \in 0..Len(ShutdownSteps) :
            /\ device' = device \o shutdown(fail)
            /\ pc' = IF fail = 0 THEN "done" ELSE "exited"
    /\ UNCHANGED << recording, loc, now, iter, nPackets >>
    /\ UNCHANGED storeVars

DeviceNext ==
    \/ ConfigureDevice
    \/ GoToRecordingMode
    \/ StartRecording
    \/ LoopPacket
    \/ StopRecording
    \/ StopDuringPacket
    \/ Shutdown

DeviceSpec == Init /\ [][DeviceNext]_vars

\* ================================================================== claims

DancerIdx == 0..(number_of_dancers - 1)
SensorIdx == 1..number_of_sensors

\* The values appended so far to the series (d_idx, s_idx, label), in order.
RECURSIVE HistOf(_, _, _, _)
HistOf(log, d_idx, s_idx, label) ==
    IF log = << >> THEN << >>
    ELSE LET rest == HistOf(Tail(log), d_idx, s_idx, label)
             a == Head(log)
         IN  IF a[1] = d_idx /\ a[2] = s_idx /\ a[3] = label
             THEN << a[4] >> \o rest
             ELSE rest

\* The last Capacity elements of a sequence at least that long.
LastCapacity(seq) == SubSeq(seq, Len(seq) - Capacity + 1, Len(seq))

\* C1: after any sequence of values v1..vk appended to one channel series by
\* send_data, the series is the last Capacity elements of "Capacity zeros
\* followed by v1..vk", in order (the source's capacity is 500).
C1_SeriesIsLastCapacity ==
    \A d_idx \in DancerIdx, s_idx \in SensorIdx, label \in LabelSet :
        dancers[d_idx][s_idx][label]
            = LastCapacity(Zeros \o HistOf(appendLog, d_idx, s_idx, label))

\* A series that received more values than it holds, not all of them equal.
C1_Witness ==
    \E d_idx \in DancerIdx, s_idx \in SensorIdx, label \in LabelSet :
        LET h == HistOf(appendLog, d_idx, s_idx, label)
        IN  /\ Len(h) > Capacity
            /\ \E i, j \in 1..Len(h) : h[i] # h[j]

\* C2: in every state reached by send_data, calculate_correlation_self and
\* calculate_correlation_others calls, every channel series (tot_a and b_tot_a
\* included) and every correlation series holds at least one and at most
\* Capacity samples; before the first call each holds Capacity zeros.
C2_SeriesBounded ==
    /\ \A d_idx \in DancerIdx, s_idx \in SensorIdx, label \in LabelSet :
        /\ Len(dancers[d_idx][s_idx][label]) >= 1
        /\ Len(dancers[d_idx][s_idx][label]) <= Capacity
        /\ nCalls = 0 => dancers[d_idx][s_idx][label] = Zeros
        /\ \A key \in DOMAIN correlations[d_idx][s_idx][label] :
            /\ Len(correlations[d_idx][s_idx][label][key]) >= 1
            /\ Len(correlations[d_idx][s_idx][label][key]) <= Capacity
            /\ nCalls = 0 => correlations[d_idx][s_idx][label][key] = Zeros

\* Samples were appended to channel series, the binary companion among them,
\* and to correlation series.
C2_Witness ==
    /\ \E i \in 1..Len(appendLog) : appendLog[i][3] = "b_tot_a"
    /\ \E i \in 1..Len(corrLog) : corrLog[i][4][1] = "snsr"
    /\ \E i \in 1..Len(corrLog) : corrLog[i][4][1] = "dancer"

\* C6: a send_data call with a sensor id that Sensors.locations does not hold
\* raises KeyError and has no effect: no series changes and configure_item is
\* not called.
C6_UnknownSensorNoEffect ==
    [][ ( /\ nCalls' = nCalls + 1
          /\ call'.op = "send_data"
          /\ call'.sensor_id \notin DOMAIN locations )
        => ( /\ call'.error = "KeyError"
             /\ dancers' = dancers
             /\ correlations' = correlations
             /\ call'.appends = << >>
             /\ call'.hooks = << >>
             /\ appendLog' = appendLog ) ]_vars

\* A send_data call with the unknown id, made on a store that holds samples.
C6_Witness ==
    /\ call.op = "send_data"
    /\ call.sensor_id = UnknownId
    /\ call.error = "KeyError"
    /\ appendLog # << >>

\* C7: a packet whose device id Sensors.locations does not hold does not end
\* recording_loop: nothing of it is stored and the loop is not left by an
\* exception.
C7_UnknownIdDropped ==
    ( /\ nPackets > 0
      /\ iter.packet.hasId
      /\ iter.packet.id \notin DOMAIN locations )
    => ( /\ pc # "raised"
         /\ iter.appends = << >> )

\* The configure_item calls of the last send_data call that were handed the
\* series (d_idx, s_idx, label) holding the window it has after the call.
HooksFor(d_idx, s_idx, label) ==
    { j \in 1..Len(call.hooks) :
        /\ call.hooks[j].series = << d_idx, s_idx, label >>
        /\ call.hooks[j].y = dancers[d_idx][s_idx][label] }

\* C8: every append made by a send_data call is followed, within the call, by
\* one configure_item call carrying the updated window of that series, for
\* every channel kind, b_tot_a included.
C8_EveryAppendHooked ==
    call.op = "send_data" =>
        \A i \in 1..Len(call.appends) :
            Cardinality(HooksFor(call.appends[i][1], call.appends[i][2],
                                 call.appends[i][3])) = 1

\* C9: for the configured pair (12, 22), calculate_correlation_others appends
\* every coefficient under dancer 1 (index 0), sensor 2, to the series keyed by
\* dancer 2, and to no series keyed by another dancer.
C9_OthersKeyedByTarget ==
    call.op = "calculate_correlation_others" =>
        /\ call.corr # << >>
        /\ \A i \in 1..Len(call.corr) :
            /\ call.corr[i][1] = 0
            /\ call.corr[i][2] = 2
            /\ call.corr[i][4] = << "dancer", 2 >>

\* The appends of the last call to the correlation series of dancer d_idx,
\* sensor i, channel label, keyed by sensor j.
SelfAppends(d_idx, i, j, label) ==
    { n \in 1..Len(call.corr) :
        /\ call.corr[n][1] = d_idx
        /\ call.corr[n][2] = i
        /\ call.corr[n][3] = label
        /\ call.corr[n][4] = << "snsr", j >> }

\* C10: calculate_correlation_self appends only to series under sensor i
\* keyed by a sensor j > i: a series keyed by a sensor j <= i of its owner has
\* never been appended to, and each call appends exactly one sample for every
\* dancer, pair i < j and correlated channel, and nothing else.
C10_SelfOnlyUpperPairs ==
    /\ \A n \in 1..Len(corrLog) :
            corrLog[n][4][1] = "snsr" => corrLog[n][2] < corrLog[n][4][2]
    /\ \A d_idx \in DancerIdx, i \in SensorIdx, j \in SensorIdx, label \in LabelSet :
            j <= i => correlations[d_idx][i][label][<< "snsr", j >>] = Zeros
    /\ call.op = "calculate_correlation_self" =>
        /\ call.error = ""
        /\ \A d_idx \in DancerIdx, i \in SensorIdx, j \in SensorIdx, label \in LabelSet :
                Cardinality(SelfAppends(d_idx, i, j, label))
                    = IF i < j /\ ~Skipped(label) THEN 1 ELSE 0
        /\ \A n \in 1..Len(call.corr) : call.corr[n][4][1] = "snsr"
        /\ Len(call.ret) = Len(call.corr)

\* A calculate_correlation_self call that stored a coefficient other than 0.
C10_Witness ==
    /\ call.op = "calculate_correlation_self"
    /\ \E n \in 1..Len(call.corr) : call.corr[n][5] # 0

\* The scale_data call that a step makes returned normally.
ScaleReturned ==
    /\ nCalls' = nCalls + 1
    /\ call'.op = "scale_data"
    /\ call'.error = ""

\* C3: scale_data widens min/max to include the raw value before it forms
\* (raw - min) / (max - min): a raw value that sets a new minimum is returned
\* as 0.0, one that sets a new maximum as 1.0.
C3_NewBoundMapsToEnd ==
    [][ ScaleReturned =>
          LET k == FirstWithId(minmax, call'.sensor_id)
              t == call'.data_type
          IN  \A i \in 1..Len(call'.value) :
                /\ call'.value[i] < minmax[k][MinKey(t)][i] => call'.ret[i] = 0
                /\ call'.value[i] > minmax[k][MaxKey(t)][i] => call'.ret[i] = Unit
      ]_vars

\* C4: every component scale_data returns lies in the unit interval [0, 1].
C4_ScaledInUnitInterval ==
    (call.op = "scale_data" /\ call.error = "") =>
        \A i \in 1..Len(call.ret) : 0 <= call.ret[i] /\ call.ret[i] <= Unit

\* C5: across scale_data calls no stored minimum increases and no stored
\* maximum decreases, and a call for one sensor id and data type changes no
\* bound of another sensor or data type.
C5_BoundsOnlyWiden ==
    [][ \A k \in 1..Len(minmax), t \in DataTypes :
          /\ \A i \in 1..Len(minmax[k][MinKey(t)]) :
                /\ minmax'[k][MinKey(t)][i] <= minmax[k][MinKey(t)][i]
                /\ minmax'[k][MaxKey(t)][i] >= minmax[k][MaxKey(t)][i]
          /\ ( /\ call'.op = "scale_data"
               /\ nCalls' = nCalls + 1
               /\ (minmax[k].id # call'.sensor_id \/ t # call'.data_type) )
             => /\ minmax'[k][MinKey(t)] = minmax[k][MinKey(t)]
                /\ minmax'[k][MaxKey(t)] = minmax[k][MaxKey(t)]
      ]_vars

\* Two registered sensors, one with a lowered minimum and a raised maximum
\* of rot, after a call that changed neither.
C5_Witness ==
    /\ call.op = "scale_data"
    /\ call.error = ""
    /\ \E k \in 1..Len(minmax) :
        /\ minmax[k].id # None
        /\ minmax[k].rot_min[1] < 0
        /\ minmax[k].rot_max[1] > Unit
        /\ call.value[1] > minmax[k].rot_min[1]
        /\ call.value[1] < minmax[k].rot_max[1]

\* The pair (source slot, target performer) is one that
\* correlation_others_combos lists: the source is performer d_idx + 1 at
\* position s_idx and the target performer is k.
ConfiguredPair(d_idx, s_idx, k) ==
    \E n \in 1..Len(correlation_others_combos) :
        /\ correlation_others_combos[n][1] = (d_idx + 1) * 10 + s_idx
        /\ correlation_others_combos[n][2] \div 10 = k

\* C11: correlation between performers runs only for the pairs of
\* correlation_others_combos: no coefficient is ever appended to the series of
\* a (source slot, target performer) pair that is not configured.
C11_OnlyConfiguredPairs ==
    \A n \in 1..Len(corrLog) :
        corrLog[n][4][1] = "dancer"
            => ConfiguredPair(corrLog[n][1], corrLog[n][2], corrLog[n][4][2])

\* C12: a composite identifier performer * 10 + position is decoded by
\* calculate_correlation_others to the same performer and position, for every
\* performer and every position 1..9.
C12_CompositeRoundTrip ==
    call.op = "decoded" => call.ret = call.value

\* A window whose variance is 0: its Pearson coefficient with any other window
\* is undefined.
ZeroVariance(x) == Len(x) * Dot(x, x) = SumSeq(x) * SumSeq(x)

\* The two windows a correlation call read for the append a that it made:
\* those of the owner of the series and of the sensor the coefficient is with
\* (for a key that names a dancer, the target of the configured pair).
WindowsOf(a) ==
    LET target == correlation_others_combos[1][2]
        own == dancers[a[1]][a[2]][a[3]]
        other == IF a[4][1] = "snsr"
                 THEN dancers[a[1]][a[4][2]][a[3]]
                 ELSE dancers[target \div 10 - 1][target % 10][a[3]]
    IN  << LastWindow(own, Len(own)), LastWindow(other, Len(other)) >>

\* C13: when the Pearson coefficient of two windows is undefined (a window of
\* zero variance), calculate_correlation_self and calculate_correlation_others
\* return and append exactly 0 for that channel, and no correlation series
\* ever holds, and no call returns, a value outside [-1, 1] (NaN, infinite).
C13_UndefinedIsZero ==
    /\ \A d_idx \in DancerIdx, s_idx \in SensorIdx, label \in LabelSet :
         \A key \in DOMAIN correlations[d_idx][s_idx][label] :
           \A i \in 1..Len(correlations[d_idx][s_idx][label][key]) :
             /\ correlations[d_idx][s_idx][label][key][i] >= -Unit
             /\ correlations[d_idx][s_idx][label][key][i] <= Unit
    /\ call.op \in { "calculate_correlation_self", "calculate_correlation_others" }
         => /\ Len(call.ret) = Len(call.corr)
            /\ \A n \in 1..Len(call.corr) :
                 /\ call.ret[n] = << call.corr[n][3], call.corr[n][5] >>
                 /\ call.corr[n][5] >= -Unit
                 /\ call.corr[n][5] <= Unit
                 /\ ( ZeroVariance(WindowsOf(call.corr[n])[1])
                      \/ ZeroVariance(WindowsOf(call.corr[n])[2]) )
                    => call.corr[n][5] = 0

\* A correlation call that met a window of zero variance on one channel and a
\* defined coefficient, stored as it is, on another.
C13_Witness ==
    /\ call.op \in { "calculate_correlation_self", "calculate_correlation_others" }
    /\ \E n \in 1..Len(call.corr) :
         /\ ZeroVariance(WindowsOf(call.corr[n])[1])
         /\ ~ZeroVariance(WindowsOf(call.corr[n])[2])
         /\ call.corr[n][5] = 0
    /\ \E n \in 1..Len(call.corr) :
         /\ ~ZeroVariance(WindowsOf(call.corr[n])[1])
         /\ ~ZeroVariance(WindowsOf(call.corr[n])[2])
         /\ call.corr[n][5] # 0

\* The feature vectors the last call returned for the series
\* (d_idx, s_idx, label).
FeaturesOf(d_idx, s_idx, label) ==
    { n \in 1..Len(call.ret) : call.ret[n].series = << d_idx, s_idx, label >> }

\* C14: calculate_fft and calculate_mfcc return exactly one feature vector for
\* every eligible channel that has received at least Window ingested samples
\* (32 in the source) and none for an eligible channel that has received
\* fewer, and none for tot_a, b_tot_a and rot.
C14_FeatureForIngestedOnly ==
    call.op \in { "calculate_fft", "calculate_mfcc" } =>
        \A d_idx \in DancerIdx, s_idx \in SensorIdx, label \in LabelSet :
            Cardinality(FeaturesOf(d_idx, s_idx, label))
                = IF /\ ~Skipped(label)
                     /\ Len(HistOf(appendLog, d_idx, s_idx, label)) >= Window
                  THEN 1 ELSE 0

\* The packet carries a device id that Sensors.locations maps to the
\* reference pair, performer 1 at position 1.
MapsToReference(packet) ==
    /\ packet.hasId
    /\ packet.id \in DOMAIN locations
    /\ locations[packet.id][2] = 1
    /\ locations[packet.id][3] = 1

\* The '-correlation-others' messages sent in the last pass of the loop.
OthersMessages ==
    { n \in 1..Len(iter.sent) : iter.sent[n].suffix = "-correlation-others" }

\* C15: in a pass of recording_loop that ends normally,
\* calculate_correlation_others runs and a '-correlation-others' message is
\* sent exactly once if the packet maps to performer 1, position 1, after the
\* packet's own message, and not at all for any other packet.
C15_OthersOnlyForReference ==
    (nPackets > 0 /\ iter.error = "") =>
        /\ Cardinality(OthersMessages)
              = IF MapsToReference(iter.packet) THEN 1 ELSE 0
        /\ (iter.corr # << >>) <=> MapsToReference(iter.packet)
        /\ \A n \in OthersMessages : n = 2 /\ iter.sent[1].suffix = ""

\* The messages without suffix, addressed /xsens{dancer}{sensor}, sent in the
\* last pass of the loop.
OwnMessages == { n \in 1..Len(iter.sent) : iter.sent[n].suffix = "" }

\* C16: for every packet, whichever of the optional fields it carries, a pass
\* of recording_loop that ends normally has sent exactly one message
\* /xsens{performer}{position}, addressed by the entry Sensors.locations
\* holds for the device id of that packet.
C16_OneMessageByOwnId ==
    (nPackets > 0 /\ iter.error = "") =>
        /\ Cardinality(OwnMessages) = 1
        /\ \A n \in OwnMessages :
            /\ iter.packet.hasId
            /\ iter.packet.id \in DOMAIN locations
            /\ iter.sent[n].dancer = locations[iter.packet.id][2]
            /\ iter.sent[n].sensor = locations[iter.packet.id][3]

\* C17: the hit flag appended for a packet is 1 exactly when the total
\* acceleration of the packet exceeds acc_threshold and more than timeout
\* (0.2 s) has passed since the last packet whose flag was 1 (the value of
\* timer); otherwise it is 0.
C17_HitFlagDebounce ==
    [][ ( /\ nPackets' = nPackets + 1
          /\ iter'.error = ""
          /\ iter'.packet.hasCal )
        => \A m \in 1..Len(iter'.appends), n \in 1..Len(iter'.appends) :
             ( /\ iter'.appends[m][3] = "tot_a"
               /\ iter'.appends[n][3] = "b_tot_a" )
             => iter'.appends[n][4]
                  = IF /\ iter'.appends[m][4] > acc_threshold * Unit
                       /\ now' - loc.timer > timeout
                    THEN 1 ELSE 0 ]_vars

\* The series a send_data call of kind data_type appends to.
KindLabels(data_type) ==
    CASE data_type = "acc" -> { "acc_x", "acc_y", "acc_z" }
      [] data_type = "gyr" -> { "gyr_x", "gyr_y", "gyr_z" }
      [] data_type = "mag" -> { "mag_x", "mag_y", "mag_z" }
      [] data_type = "ori" -> { "ori_p", "ori_r", "ori_y" }
      [] data_type = "rot" -> { "rot" }
      [] data_type = "tot_a" -> { "tot_a", "b_tot_a" }

\* The appends the call in record c made to the series (d_idx, s_idx, label).
AppendsTo(c, d_idx, s_idx, label) ==
    { n \in 1..Len(c.appends) :
        /\ c.appends[n][1] = d_idx
        /\ c.appends[n][2] = s_idx
        /\ c.appends[n][3] = label }

\* C18: a send_data call for sensor id S and kind K appends exactly one sample
\* to each series of kind K in the slot Sensors.locations gives for S, and
\* leaves every other series of that slot, every series of every other slot
\* and dancer, and every correlation series unchanged.
C18_SendDataFrame ==
    [][ ( /\ nCalls' = nCalls + 1
          /\ call'.op = "send_data"
          /\ call'.error = "" )
        => /\ correlations' = correlations
           /\ \A d_idx \in DancerIdx, s_idx \in SensorIdx, label \in LabelSet :
                IF /\ d_idx = locations[call'.sensor_id][2] - 1
                   /\ s_idx = locations[call'.sensor_id][3]
                   /\ label \in KindLabels(call'.data_type)
                THEN /\ Cardinality(AppendsTo(call', d_idx, s_idx, label)) = 1
                     /\ \A n \in AppendsTo(call', d_idx, s_idx, label) :
                          dancers'[d_idx][s_idx][label]
                            = LastCapacity(Append(dancers[d_idx][s_idx][label],
                                                  call'.appends[n][4]))
                ELSE /\ AppendsTo(call', d_idx, s_idx, label) = { }
                     /\ dancers'[d_idx][s_idx][label] = dancers[d_idx][s_idx][label]
      ]_vars

\* A send_data call of kind tot_a that returned, on a store in which a slot
\* of another dancer holds samples.
C18_Witness ==
    /\ call.op = "send_data"
    /\ call.error = ""
    /\ call.data_type = "tot_a"
    /\ \E d_idx \in DancerIdx, s_idx \in SensorIdx, label \in LabelSet :
         /\ d_idx # locations[call.sensor_id][2] - 1
         /\ dancers[d_idx][s_idx][label] # Zeros

\* C19: a failure raised by dpg.configure_item during send_data does not
\* reach the caller: the call returns, and every append of its kind has been
\* made (call.ret holds the number of the configure_item call that raised).
C19_HookFailureContained ==
    ( /\ call.op = "send_data"
      /\ call.ret # << >> )
    => /\ call.error = ""
       /\ \A label \in KindLabels(call.data_type) :
            Cardinality(AppendsTo(call, locations[call.sensor_id][2] - 1,
                                  locations[call.sensor_id][3], label)) = 1

\* Every component of value lies within the bounds b.
WithinBounds(value, b) ==
    /\ b # << >>
    /\ Len(value) <= Len(b.min)
    /\ \A i \in 1..Len(value) : b.min[i] <= value[i] /\ value[i] <= b.max[i]

\* Two scale_data calls in a row for one sensor and data type, both returned,
\* both values within the bounds the first call read.
BothWithinBounds ==
    /\ call.op = "scale_data"
    /\ call.error = ""
    /\ call.prior # << >>
    /\ Len(call.prior.value) = Len(call.value)
    /\ WithinBounds(call.prior.value, call.prior.before)
    /\ WithinBounds(call.value, call.prior.before)

\* C20: scale_data is monotonic: of two values within the bounds of the
\* sensor scaled one after the other, in either order, the larger one gets
\* the larger or equal result, and neither call changes the bounds.
C20_ScaleMonotonic ==
    BothWithinBounds =>
        /\ call.before = call.prior.before
        /\ BoundsOf(minmax, call.sensor_id, call.data_type) = call.prior.before
        /\ \A i \in 1..Len(call.value) :
            /\ call.prior.value[i] < call.value[i] => call.prior.ret[i] <= call.ret[i]
            /\ call.prior.value[i] > call.value[i] => call.prior.ret[i] >= call.ret[i]

\* A value scaled after a smaller one, both inside bounds that an earlier
\* call has widened, with a result strictly between that of the smaller one
\* and 1.
C20_Witness ==
    /\ BothWithinBounds
    /\ call.prior.before.max[1] > Unit
    /\ call.prior.value[1] < call.value[1]
    /\ call.prior.ret[1] < call.ret[1]
    /\ call.ret[1] < Unit

\* Some bound of some sensor has its maximum equal to its minimum.
BoundsMeet ==
    \E k \in 1..Len(minmax), t \in DataTypes :
        \E i \in 1..Len(minmax[k][MinKey(t)]) :
            minmax[k][MaxKey(t)][i] = minmax[k][MinKey(t)][i]

\* C21: starting from min = 0 and max = 1, a stream of identical raw values
\* passed to scale_data reaches a state in which the maximum of the sensor
\* equals its minimum, so that the ratio divides by zero.
C21_IdenticalStreamMeets == <>(BoundsMeet \/ call.error = "ZeroDivisionError")

\* C21 as amended: starting from min = 0 and max = 1, a stream of identical
\* raw values passed to scale_data never reaches a state in which the maximum
\* of the sensor equals its minimum, and no call divides by zero: every
\* minimum stays <= 0 and every maximum >= 1.
C21_BoundsNeverMeet ==
    /\ ~BoundsMeet
    /\ call.error # "ZeroDivisionError"
    /\ \A k \in 1..Len(minmax), t \in DataTypes :
        \A i \in 1..Len(minmax[k][MinKey(t)]) :
            /\ minmax[k][MinKey(t)][i] <= 0
            /\ minmax[k][MaxKey(t)][i] >= Unit

\* The same value scaled twice in a row after it has set a new bound: the
\* second call reads the widened bounds and returns.
C21_Witness ==
    /\ call.op = "scale_data"
    /\ call.error = ""
    /\ call.prior # << >>
    /\ call.prior.value = call.value
    /\ call.before # call.prior.before
    /\ \/ call.value[1] = call.before.min[1]
       \/ call.value[1] = call.before.max[1]

\* The channel labels the correlation and feature routines do not skip by
\* name, in the order of the store.
UnskippedLabels == SelectSeq(labels, LAMBDA label : ~Skipped(label))

\* C22: every channel series holds at least a window of samples in every
\* reachable state, so the 'fewer samples than a window' skip is never taken:
\* every call of calculate_correlation_others returns, with exactly 12
\* [label, coefficient] entries for each configured pair, one per label that
\* is not skipped by name, also before anything was ingested.
C22_WindowAlwaysFull ==
    /\ \A d_idx \in DOMAIN dancers :
        \A s_idx \in DOMAIN dancers[d_idx] :
            \A label \in DOMAIN dancers[d_idx][s_idx] :
                Len(dancers[d_idx][s_idx][label]) >= Window
    /\ call.op = "calculate_correlation_others" =>
        /\ call.error = ""
        /\ Len(call.ret) = 12 * Len(correlation_others_combos)
        /\ \A n \in 1..Len(call.ret) :
                call.ret[n][1] = UnskippedLabels[((n - 1) % 12) + 1]

\* calculate_correlation_others called before any sample was ingested.
C22_Witness ==
    /\ call.op = "calculate_correlation_others"
    /\ call.error = ""
    /\ Len(call.ret) = 12
    /\ appendLog = << >>

\* C23: in recording_loop the samples of a packet are appended only to series
\* of the performer and position that Sensors.locations gives for the device
\* id of that packet; a packet without a stored device id causes no append
\* and no message.
C23_AppendsToOwnSensor ==
    nPackets > 0 =>
        /\ \A n \in 1..Len(iter.appends) :
            /\ iter.packet.hasId
            /\ iter.packet.id \in DOMAIN locations
            /\ iter.appends[n][1] = locations[iter.packet.id][2] - 1
            /\ iter.appends[n][2] = locations[iter.packet.id][3]
        /\ ~iter.packet.hasId => iter.sent = << >>

\* A line that holds every field: the id, the 5 fields of the acceleration,
\* the 4 of the gyroscope, the 3 of the magnetic field and the 7 of the
\* orientation.
FullLine(line) == Len(line) = 20 /\ line[1].kind = "int"

\* The appends that put the fields of a full line into the channels they
\* were recorded from, for the performer and position its id names.
RecordedChannels(line) ==
    LET d_idx == (line[1].v \div 10) - 1
        s_idx == line[1].v % 10
    IN  << << d_idx, s_idx, "acc_x", line[2].v >>,
           << d_idx, s_idx, "acc_y", line[3].v >>,
           << d_idx, s_idx, "acc_z", line[4].v >>,
           << d_idx, s_idx, "tot_a", line[5].v >>,
           << d_idx, s_idx, "b_tot_a", line[6].v >>,
           << d_idx, s_idx, "gyr_x", line[7].v >>,
           << d_idx, s_idx, "gyr_y", line[8].v >>,
           << d_idx, s_idx, "gyr_z", line[9].v >>,
           << d_idx, s_idx, "rot", line[10].v >>,
           << d_idx, s_idx, "mag_x", line[11].v >>,
           << d_idx, s_idx, "mag_y", line[12].v >>,
           << d_idx, s_idx, "mag_z", line[13].v >>,
           << d_idx, s_idx, "ori_p", line[14].v >>,
           << d_idx, s_idx, "ori_r", line[15].v >>,
           << d_idx, s_idx, "ori_y", line[16].v >> >>

\* C24: a full line written by recording_loop for a packet of performer p,
\* position s is replayed by plot_log into the series of (p, s), each field
\* into the channel it was recorded from, and the replay ends without error
\* (stated for the first line of the log).
C24_ReplayRoundTrip ==
    ( /\ call.op = "plot_log"
      /\ FullLine(call.value[1]) )
    => /\ call.error = ""
       /\ Len(call.appends) >= 15
       /\ SubSeq(call.appends, 1, 15) = RecordedChannels(call.value[1])

\* The calls made after the last call of startRecording.
AfterStartRecording ==
    LET starts == { n \in 1..Len(device) : device[n] = "startRecording" }
    IN  IF starts = { } THEN << >>
        ELSE SubSeq(device, (CHOOSE n \in starts : \A m \in starts : m <= n) + 1,
                    Len(device))

\* C25: wherever configure_device, go_to_recording_mode or recording_loop
\* calls sys.exit(1) after the radio was enabled, disableRadio() was called
\* after enableRadio() and before the exit; and once self.recording is False
\* the loop ends and makes the calls stopRecording, closeLogFile,
\* clearCallbackHandlers, disableRadio, closePort for each port, close, in
\* that order: recording_loop is not left in another way.
C25_RadioOffAndOrderlyShutdown ==
    /\ \A n \in 1..Len(device) :
        \A m \in 1..(n - 1) :
            (device[n] = "sys.exit" /\ device[m] = "enableRadio")
                => \E k \in (m + 1)..(n - 1) : device[k] = "disableRadio"
    /\ pc = "done" =>
            AfterStartRecording
                = << "stopRecording", "closeLogFile", "clearCallbackHandlers",
                     "disableRadio" >>
                  \o [ n \in 1..Len(port) |-> "closePort" ]
                  \o << "close" >>
    /\ (nPackets > 0 /\ ~recording) => pc \in { "loop", "done", "exited" }

=============================================================================
